---- MODULE Spec2Model ----
(***************************************************************************)
(* Base schema block: the schema parser (frontend/parseSchema.js), the     *)
(* layout engine and path router (frontend/coordinateHelpers.js) and the   *)
(* settings hook that drives them on a schema change                       *)
(* (frontend/LinkContainer.js, useSettings).                               *)
(*                                                                         *)
(* Conventions                                                             *)
(*  - A JS object used as a map is a TLA+ function whose DOMAIN is the set  *)
(*    of its keys.  Where the code depends on the key order of an object    *)
(*    (tableConfigsByTableId, base.tables, table.fields) the object is a    *)
(*    sequence in insertion order.                                          *)
(*  - Ids are strings; a link id is the JS template string source_target.  *)
(*  - An absent option (undefined) is the empty string NoId, falsy in JS.   *)
(*  - Display-only members (name, tableName, tooltipLabel) are left out of  *)
(*    nodes and links: no operation modelled here reads them.               *)
(***************************************************************************)
EXTENDS Integers, Sequences, FiniteSets, TLC

VARIABLES
    base,                   \* host data: the sequence of tables (base.tables)
    idsHandedOut,           \* host data: how many table ids and field ids exist so far
    baseSchema,             \* React state: the last parseSchema(base)
    tableCoordsByTableId,   \* globalConfig[TABLE_COORDS_BY_TABLE_ID]
    linkPathsByLinkId,      \* React state: link id -> path
    crashed,                \* the schema watch callback threw
    mounted,                \* the component tree is mounted
    panEnabled,             \* svgPanZoom.isPanEnabled()
    windowListeners,        \* the mousemove/mouseup handler pairs on window, in order
    tableElements,          \* DOM: table id -> the x, y attributes of its svg element
    linkElements,           \* DOM: link id -> the d attribute of its path element
    hoveredNodeOrLinkRef,   \* hoveredNodeOrLinkRef.current, NoId for null
    idsToHighlight,         \* the array the last mouseover handler built
    highlighted,            \* DOM: ids of the elements of class highlighted
    pointerEvents,          \* how many presses and moves were handled so far
    event,                  \* the event handled last
    written,                \* the values it passed to globalConfig.setAsync, in order
    pc,                     \* harness of the pure functions: "app", "input", "coords", "returned"
    fn,                     \* the function the harness applies
    args,                   \* its arguments
    ret                     \* its result

interactionVars == <<mounted, panEnabled, windowListeners, tableElements, linkElements,
                     hoveredNodeOrLinkRef, idsToHighlight, highlighted, pointerEvents,
                     event, written>>

vars == <<base, idsHandedOut, baseSchema, tableCoordsByTableId, linkPathsByLinkId,
          crashed, interactionVars, pc, fn, args, ret>>

appVars == <<base, idsHandedOut, baseSchema, tableCoordsByTableId, linkPathsByLinkId,
             crashed, interactionVars>>

harnessVars == <<pc, fn, args, ret>>

---------------------------------------------------------------------------
(* Program constants (frontend/constants.js)                               *)

TABLE_GUTTER_SIZE == 50
ROW_HEIGHT == 32
ROW_WIDTH == 180
TABLE_BORDER_WIDTH == 2

(* FieldType values of the host SDK that parseSchema switches on.          *)
SINGLE_LINE_TEXT == "singleLineText"
MULTIPLE_RECORD_LINKS == "multipleRecordLinks"
FORMULA == "formula"
COUNT == "count"
MULTIPLE_LOOKUP_VALUES == "multipleLookupValues"
ROLLUP == "rollup"

NoId == ""

EmptyMap == [k \in {} |-> 0]

---------------------------------------------------------------------------
(* Bounds of the model                                                     *)

MaxTableIds == 2        \* table ids the host ever hands out
MaxFieldIds == 4        \* field ids the host ever hands out
MaxFieldsPerTable == 3  \* fields of one table

---------------------------------------------------------------------------
(* Schema parser: frontend/parseSchema.js                                  *)

pushToOrInitializeArray(obj, key, value) ==
    IF key \in DOMAIN obj
    THEN [obj EXCEPT ![key] = Append(@, value)]
    ELSE (key :> <<value>>) @@ obj

createLinkId(source, target) == source \o "_" \o target

(* The link object literal built in every case of the switch.              *)
NewLink(sourceId, sourceTableId, targetId, targetTableId, type) ==
    [id |-> createLinkId(sourceId, targetId),
     sourceId |-> sourceId,
     sourceTableId |-> sourceTableId,
     targetId |-> targetId,
     targetTableId |-> targetTableId,
     type |-> type]

(* linksById[link.id] = link, then one pushToOrInitializeArray per key.    *)
RECURSIVE RegisterLink(_, _, _, _)
RegisterLink(acc, link, keys, i) ==
    IF i > Len(keys)
    THEN [acc EXCEPT !.linksById = (link.id :> link) @@ @]
    ELSE RegisterLink(
             [acc EXCEPT !.dependentLinksByNodeId =
                             pushToOrInitializeArray(@, keys[i], link)],
             link, keys, i + 1)

(* table.getFieldByIdIfExists(fieldId): the field's index, 0 for null.     *)
getFieldByIdIfExists(table, fieldId) ==
    IF \E i \in 1..Len(table.fields) : table.fields[i].id = fieldId
    THEN CHOOSE i \in 1..Len(table.fields) : table.fields[i].id = fieldId
    ELSE 0

(* The id under which the mirror field would have created the link.        *)
inverseLinkIdSameOrder(field) == createLinkId(field.id, field.options.inverseLinkFieldId)

inverseLinkId(field) == createLinkId(field.options.inverseLinkFieldId, field.id)

(* The link of a linked-record field with no mirror field: from the field  *)
(* to the header of the linked table.                                      *)
SelfLinkToField(table, field) ==
    NewLink(field.id, table.id, field.id, field.options.linkedTableId, field.type)

SelfLink(table, field) ==
    NewLink(field.id, table.id, field.options.linkedTableId,
            field.options.linkedTableId, field.type)

(* case FieldType.MULTIPLE_RECORD_LINKS                                     *)
LinkedRecordCase(acc, table, field) ==
    LET inverseLinkFieldId == field.options.inverseLinkFieldId
        linkedTableId == field.options.linkedTableId
    IN  IF inverseLinkFieldId # NoId
        THEN IF inverseLinkId(field) \in DOMAIN acc.linksById
             THEN [acc EXCEPT !.dependentLinksByNodeId =
                       pushToOrInitializeArray(@, field.id,
                                               acc.linksById[inverseLinkId(field)])]
             ELSE RegisterLink(acc,
                      NewLink(field.id, table.id, inverseLinkFieldId, linkedTableId,
                              field.type),
                      <<field.id>>, 1)
        ELSE RegisterLink(acc, SelfLink(table, field), <<field.id>>, 1)

(* One link per referenced field id, registered against both endpoints     *)
(* (FORMULA, and the first loop of ROLLUP).                                *)
RECURSIVE ReferencedFieldLinks(_, _, _, _)
ReferencedFieldLinks(acc, table, field, i) ==
    LET ids == field.options.referencedFieldIds
    IN  IF i > Len(ids)
        THEN acc
        ELSE ReferencedFieldLinks(
                 RegisterLink(acc,
                     NewLink(field.id, table.id, ids[i], table.id, field.type),
                     <<field.id, ids[i]>>, 1),
                 table, field, i + 1)

(* case FieldType.COUNT, and the link to the local linked-record field of  *)
(* MULTIPLE_LOOKUP_VALUES and ROLLUP.                                      *)
RecordLinkFieldLink(acc, table, field) ==
    LET recordLinkFieldId == field.options.recordLinkFieldId
    IN  RegisterLink(acc,
            NewLink(field.id, table.id, recordLinkFieldId, table.id, field.type),
            <<field.id, recordLinkFieldId>>, 1)

(* The foreign link of MULTIPLE_LOOKUP_VALUES and ROLLUP, guarded by the   *)
(* existence of the local linked-record field.                             *)
ForeignLink(acc, table, field) ==
    LET recordLinkField == getFieldByIdIfExists(table, field.options.recordLinkFieldId)
        fieldIdInLinkedTable == field.options.fieldIdInLinkedTable
    IN  IF recordLinkField # 0
        THEN RegisterLink(acc,
                 NewLink(field.id, table.id, fieldIdInLinkedTable,
                         table.fields[recordLinkField].options.linkedTableId,
                         field.type),
                 <<field.id, fieldIdInLinkedTable>>, 1)
        ELSE acc

(* no field is taken as flagged                                            *)
NeverFlagged(field) == FALSE

(* field.options && field.options.isValid === false                        *)
IsFlaggedInvalid(field) == field.options.isValid = FALSE

(* The body of table.fields.forEach: the field node, then the switch.      *)
ParseField(acc, table, field) ==
    LET fieldNode == [id |-> field.id, type |-> "field", tableId |-> table.id]
        acc1 == [acc EXCEPT !.fieldNodes = Append(@, fieldNode),
                            !.nodesById = (field.id :> fieldNode) @@ @]
    IN  IF IsFlaggedInvalid(field)
        THEN acc1
        ELSE CASE field.type = MULTIPLE_RECORD_LINKS -> LinkedRecordCase(acc1, table, field)
               [] field.type = FORMULA -> ReferencedFieldLinks(acc1, table, field, 1)
               [] field.type = COUNT -> RecordLinkFieldLink(acc1, table, field)
               [] field.type = MULTIPLE_LOOKUP_VALUES ->
                      ForeignLink(RecordLinkFieldLink(acc1, table, field), table, field)
               [] field.type = ROLLUP ->
                      ForeignLink(
                          RecordLinkFieldLink(
                              ReferencedFieldLinks(acc1, table, field, 1), table, field),
                          table, field)
               [] OTHER -> acc1

RECURSIVE ParseFields(_, _, _)
ParseFields(acc, table, i) ==
    IF i > Len(table.fields)
    THEN acc
    ELSE ParseFields(ParseField(acc, table, table.fields[i]), table, i + 1)

(* The body of the first base.tables.forEach.                              *)
ParseTable(acc, table) ==
    LET acc1 == ParseFields([acc EXCEPT !.fieldNodes = <<>>], table, 1)
        tableNode == [id |-> table.id, type |-> "table", tableId |-> table.id]
    IN  [acc1 EXCEPT !.nodesById = (table.id :> tableNode) @@ @,
                     !.tableConfigsByTableId =
                         Append(@, [tableId |-> table.id,
                                    tableNode |-> tableNode,
                                    fieldNodes |-> acc1.fieldNodes])]

RECURSIVE ParseTables(_, _, _)
ParseTables(acc, tables, i) ==
    IF i > Len(tables)
    THEN acc
    ELSE ParseTables(ParseTable(acc, tables[i]), tables, i + 1)

(* The defensive filter keeps a link whose target table and target node    *)
(* were both produced in this parse.                                       *)
KeepsEveryLink(link, nodesById) == TRUE

KeepsOnTargetTableOnly(link, nodesById) == link.targetTableId \in DOMAIN nodesById

FilterKeeps(link, nodesById) ==
    /\ link.targetTableId \in DOMAIN nodesById
    /\ link.targetId \in DOMAIN nodesById

FilterLinks(linksById, nodesById) ==
    [linkId \in {k \in DOMAIN linksById : FilterKeeps(linksById[k], nodesById)}
        |-> linksById[linkId]]

(* table.fields.reduce(...): the concatenation, in field order, of the     *)
(* fields' reverse-index entries.                                          *)
RECURSIVE TableDependentLinks(_, _, _)
TableDependentLinks(dependentLinksByNodeId, fields, i) ==
    IF i > Len(fields)
    THEN <<>>
    ELSE (IF fields[i].id \in DOMAIN dependentLinksByNodeId
          THEN dependentLinksByNodeId[fields[i].id]
          ELSE <<>>)
         \o TableDependentLinks(dependentLinksByNodeId, fields, i + 1)

(* The second base.tables.forEach: the per-table aggregate entries.        *)
RECURSIVE SecondPass(_, _, _)
SecondPass(dependentLinksByNodeId, tables, i) ==
    IF i > Len(tables)
    THEN dependentLinksByNodeId
    ELSE SecondPass(
             (tables[i].id :> TableDependentLinks(dependentLinksByNodeId,
                                                  tables[i].fields, 1))
                 @@ dependentLinksByNodeId,
             tables, i + 1)

(* The state of parseSchema's accumulators after the first forEach.        *)
FirstPass(b) ==
    ParseTables([linksById |-> EmptyMap,
                 nodesById |-> EmptyMap,
                 tableConfigsByTableId |-> <<>>,
                 dependentLinksByNodeId |-> EmptyMap,
                 fieldNodes |-> <<>>],
                b, 1)

parseSchema(b) ==
    LET acc == FirstPass(b)
    IN  [linksById |-> FilterLinks(acc.linksById, acc.nodesById),
         nodesById |-> acc.nodesById,
         tableConfigsByTableId |-> acc.tableConfigsByTableId,
         dependentLinksByNodeId |-> SecondPass(acc.dependentLinksByNodeId, b, 1)]

---------------------------------------------------------------------------
(* JS numbers.  Coordinates are integers; the two non-numbers the layout   *)
(* code can produce are carried as values outside the coordinate range.    *)

Undefined == -1000001

NaN == -1000002

IsNumber(v) == v # Undefined /\ v # NaN

JsAdd(a, b) == IF IsNumber(a) /\ IsNumber(b) THEN a + b ELSE NaN

JsGreater(a, b) == IsNumber(a) /\ IsNumber(b) /\ a > b

JsLess(a, b) == IsNumber(a) /\ IsNumber(b) /\ a < b

Abs(n) == IF n < 0 THEN 0 - n ELSE n

Min(a, b) == IF a < b THEN a ELSE b

---------------------------------------------------------------------------
(* Layout engine: frontend/coordinateHelpers.js                            *)

(* tableConfigsByTableId[tableId], 0 for undefined.                        *)
ConfigIndex(tableConfigsByTableId, tableId) ==
    IF \E i \in 1..Len(tableConfigsByTableId) : tableConfigsByTableId[i].tableId = tableId
    THEN CHOOSE i \in 1..Len(tableConfigsByTableId) :
             tableConfigsByTableId[i].tableId = tableId
    ELSE 0

(* Object.keys(tableConfigsByTableId), in insertion order.                 *)
TableIdsOf(tableConfigsByTableId) ==
    [i \in 1..Len(tableConfigsByTableId) |-> tableConfigsByTableId[i].tableId]

(* the rows alone, without the gutter                                      *)
RowsHeight(tableConfig) == (Len(tableConfig.fieldNodes) + 1) * ROW_HEIGHT

(* numRows * ROW_HEIGHT + TABLE_GUTTER_SIZE, numRows = 1 + fieldNodes.length *)
TableHeightContribution(tableConfig) ==
    (Len(tableConfig.fieldNodes) + 1) * ROW_HEIGHT + TABLE_GUTTER_SIZE

(* Math.ceil(Math.sqrt(n)), exact for the table counts of a base.          *)
FloorSqrtColumns(n) == CHOOSE k \in 0..n : k * k <= n /\ (k + 1) * (k + 1) > n

numColumns(n) == CHOOSE k \in 0..n : k * k >= n /\ (k = 0 \/ (k - 1) * (k - 1) < n)

(* getShortestColumn: the scan of columnHeights.entries(); currentLowest   *)
(* is -1 for null.  Columns are numbered from 0; columnHeights[i + 1] is   *)
(* the height of column i.                                                 *)
RECURSIVE ScanColumns(_, _, _, _)
ScanColumns(columnHeights, index, currentLowest, currentLowestIndex) ==
    IF index >= Len(columnHeights)
    THEN currentLowestIndex
    ELSE LET columnHeight == columnHeights[index + 1]
         IN  IF columnHeight = 0
             THEN index
             ELSE IF currentLowest = -1 \/ columnHeight < currentLowest
                  THEN ScanColumns(columnHeights, index + 1, columnHeight, index)
                  ELSE ScanColumns(columnHeights, index + 1, currentLowest,
                                   currentLowestIndex)

(* the scan with ties going to the highest index                           *)
getLastShortestColumn(columnHeights) ==
    CHOOSE c \in 0..(Len(columnHeights) - 1) :
        /\ \A d \in 0..(Len(columnHeights) - 1) : columnHeights[c + 1] <= columnHeights[d + 1]
        /\ \A d \in (c + 1)..(Len(columnHeights) - 1) :
               columnHeights[d + 1] > columnHeights[c + 1]

getShortestColumn(columnHeights) == ScanColumns(columnHeights, 0, -1, 0)

(* The loop over Object.entries(tableConfigsByTableId).                    *)
RECURSIVE PlaceTables(_, _, _, _)
PlaceTables(tableConfigsByTableId, i, columnHeights, tableCoords) ==
    IF i > Len(tableConfigsByTableId)
    THEN tableCoords
    ELSE LET tableConfig == tableConfigsByTableId[i]
             columnIndex == getShortestColumn(columnHeights)
             y == columnHeights[columnIndex + 1]
             x == columnIndex * (ROW_WIDTH + TABLE_GUTTER_SIZE)
             dy == TableHeightContribution(tableConfig)
         IN  PlaceTables(tableConfigsByTableId, i + 1,
                 [columnHeights EXCEPT ![columnIndex + 1] = @ + dy],
                 (tableConfig.tableId :> [x |-> x, y |-> y]) @@ tableCoords)

getInitialTableCoords(tableConfigsByTableId) ==
    PlaceTables(tableConfigsByTableId, 1,
                [c \in 1..numColumns(Len(tableConfigsByTableId)) |-> 0],
                EmptyMap)

(* _.difference(Object.keys(newTableConfigs), Object.keys(oldTableCoords)) *)
EveryTableId(newTableConfigs, oldTableCoords) == TableIdsOf(newTableConfigs)

newTableIds(newTableConfigs, oldTableCoords) ==
    SelectSeq(TableIdsOf(newTableConfigs), LAMBDA id : id \notin DOMAIN oldTableCoords)

(* The forEach over Object.values(oldTableCoords): rightMostTablePosition  *)
(* and topMostTablePosition, both undefined before the first entry.        *)
RECURSIVE RightMost(_, _, _)
RightMost(oldTableCoords, ids, rightMostTablePosition) ==
    IF ids = {}
    THEN rightMostTablePosition
    ELSE LET id == CHOOSE k \in ids : TRUE
             x == oldTableCoords[id].x
         IN  RightMost(oldTableCoords, ids \ {id},
                 IF rightMostTablePosition = Undefined
                    \/ JsGreater(x, rightMostTablePosition)
                 THEN x
                 ELSE rightMostTablePosition)

(* the lowest table instead of the topmost one                             *)
BottomMost(oldTableCoords, ids, topMostTablePosition) ==
    IF ids = {}
    THEN topMostTablePosition
    ELSE CHOOSE y \in {oldTableCoords[id].y : id \in ids} :
             \A id \in ids : oldTableCoords[id].y <= y

RECURSIVE TopMost(_, _, _)
TopMost(oldTableCoords, ids, topMostTablePosition) ==
    IF ids = {}
    THEN topMostTablePosition
    ELSE LET id == CHOOSE k \in ids : TRUE
             y == oldTableCoords[id].y
         IN  TopMost(oldTableCoords, ids \ {id},
                 IF topMostTablePosition = Undefined
                    \/ JsLess(y, topMostTablePosition)
                 THEN y
                 ELSE topMostTablePosition)

(* newTableIds.reduce(...): the new column, stacked from the topmost y.    *)
RECURSIVE StackNewTables(_, _, _, _, _, _)
StackNewTables(newTableConfigs, ids, i, rightMostTablePosition, verticalOffset, accumulatedTableCoords) ==
    IF i > Len(ids)
    THEN accumulatedTableCoords
    ELSE LET x == JsAdd(JsAdd(rightMostTablePosition, ROW_WIDTH), TABLE_GUTTER_SIZE)
             y == verticalOffset
             tableConfig == newTableConfigs[ConfigIndex(newTableConfigs, ids[i])]
         IN  StackNewTables(newTableConfigs, ids, i + 1, rightMostTablePosition,
                 JsAdd(verticalOffset, TableHeightContribution(tableConfig)),
                 (ids[i] :> [x |-> x, y |-> y]) @@ accumulatedTableCoords)

(* {...oldTableCoords, ...newTableCoords}                                   *)
OnlyNewTableCoords(oldTableCoords, newTableCoords) == newTableCoords

MergeTableCoords(oldTableCoords, newTableCoords) == newTableCoords @@ oldTableCoords

getUpdatedTableCoords(newTableConfigs, oldTableCoords) ==
    LET ids == newTableIds(newTableConfigs, oldTableCoords)
    IN  IF Len(ids) = 0
        THEN oldTableCoords
        ELSE MergeTableCoords(oldTableCoords,
                 StackNewTables(newTableConfigs, ids, 1,
                     RightMost(oldTableCoords, DOMAIN oldTableCoords, Undefined),
                     TopMost(oldTableCoords, DOMAIN oldTableCoords, Undefined),
                     EmptyMap))

---------------------------------------------------------------------------
(* Path router: frontend/coordinateHelpers.js                              *)

(* the first row when the id is absent                                     *)
findIndexOrFirst(fieldNodes, id) ==
    IF \E i \in 1..Len(fieldNodes) : fieldNodes[i].id = id
    THEN (CHOOSE i \in 1..Len(fieldNodes) : fieldNodes[i].id = id) - 1
    ELSE 0

(* fieldNodes.findIndex(n => n.id === id): from 0, -1 when absent.         *)
findIndex(fieldNodes, id) ==
    IF \E i \in 1..Len(fieldNodes) : fieldNodes[i].id = id
    THEN (CHOOSE i \in 1..Len(fieldNodes) :
              /\ fieldNodes[i].id = id
              /\ \A j \in 1..(i - 1) : fieldNodes[j].id # id) - 1
    ELSE -1

Threw == [threw |-> TRUE]

(* The three-way classification of the rows' horizontal positions.         *)
ClassifyAtLeastRowWidth(sourceNodeCoords, targetNodeCoords) ==
    IF sourceNodeCoords.x - targetNodeCoords.x >= ROW_WIDTH
    THEN [threw |-> FALSE,
          sourceCoords |-> sourceNodeCoords,
          targetCoords |-> [targetNodeCoords EXCEPT !.x = @ + ROW_WIDTH],
          useDirectPath |-> TRUE]
    ELSE IF targetNodeCoords.x - sourceNodeCoords.x >= ROW_WIDTH
    THEN [threw |-> FALSE,
          sourceCoords |-> [sourceNodeCoords EXCEPT !.x = @ + ROW_WIDTH],
          targetCoords |-> targetNodeCoords,
          useDirectPath |-> TRUE]
    ELSE [threw |-> FALSE,
          sourceCoords |-> [sourceNodeCoords EXCEPT !.x = @ + ROW_WIDTH],
          targetCoords |-> [targetNodeCoords EXCEPT !.x = @ + ROW_WIDTH],
          useDirectPath |-> FALSE]

ClassifyRows(sourceNodeCoords, targetNodeCoords) ==
    IF sourceNodeCoords.x - targetNodeCoords.x > ROW_WIDTH
    THEN [threw |-> FALSE,
          sourceCoords |-> sourceNodeCoords,
          targetCoords |-> [targetNodeCoords EXCEPT !.x = @ + ROW_WIDTH],
          useDirectPath |-> TRUE]
    ELSE IF targetNodeCoords.x - sourceNodeCoords.x > ROW_WIDTH
    THEN [threw |-> FALSE,
          sourceCoords |-> [sourceNodeCoords EXCEPT !.x = @ + ROW_WIDTH],
          targetCoords |-> targetNodeCoords,
          useDirectPath |-> TRUE]
    ELSE [threw |-> FALSE,
          sourceCoords |-> [sourceNodeCoords EXCEPT !.x = @ + ROW_WIDTH],
          targetCoords |-> [targetNodeCoords EXCEPT !.x = @ + ROW_WIDTH],
          useDirectPath |-> FALSE]

(* The top-left corner of a row: the table's corner, the border, the rows  *)
(* above it and half a row.                                                *)
NodeCoords(tableCoords, yOffset) ==
    [x |-> tableCoords.x + TABLE_BORDER_WIDTH,
     y |-> tableCoords.y + yOffset + TABLE_BORDER_WIDTH + ROW_HEIGHT \div 2]

(* Reading a member of undefined (a table with no coordinates or no        *)
(* config) is a TypeError; a field missing from its table is the Error     *)
(* the code throws itself.                                                 *)
calculateLinkCoords(link, tableCoords, tableConfigs) ==
    LET sourceConfig == ConfigIndex(tableConfigs, link.sourceTableId)
        targetConfig == ConfigIndex(tableConfigs, link.targetTableId)
    IN  IF sourceConfig = 0 \/ link.sourceTableId \notin DOMAIN tableCoords
        THEN Threw
        ELSE LET sourceFieldIndex ==
                     findIndex(tableConfigs[sourceConfig].fieldNodes, link.sourceId)
             IN  IF sourceFieldIndex = -1
                 THEN Threw
                 ELSE IF link.targetTableId \notin DOMAIN tableCoords
                         \/ (link.targetId # link.targetTableId /\ targetConfig = 0)
                 THEN Threw
                 ELSE LET targetFieldIndex ==
                              IF link.targetId = link.targetTableId
                              THEN 0
                              ELSE findIndex(tableConfigs[targetConfig].fieldNodes,
                                             link.targetId)
                          targetYOffset ==
                              IF link.targetId = link.targetTableId
                              THEN 0
                              ELSE ROW_HEIGHT + targetFieldIndex * ROW_HEIGHT
                      IN  IF targetFieldIndex = -1
                          THEN Threw
                          ELSE ClassifyRows(
                                   NodeCoords(tableCoords[link.sourceTableId],
                                       ROW_HEIGHT + sourceFieldIndex * ROW_HEIGHT),
                                   NodeCoords(tableCoords[link.targetTableId],
                                       targetYOffset))

(* Every number of the path is carried as PathUnit times its value, which  *)
(* keeps the control points exact: xScaleFactor = 0.5 + min(|dy|, 300)/600 *)
(* is (300 + min(|dy|, 300)) / PathUnit.  The path is the M point and the  *)
(* three points of the C command.                                          *)
PathUnit == 600

MaxScaledYDelta == 300

IndirectControlOffset == 40

Point(x, y) == [x |-> x, y |-> y]

(* the control points of a direct path                                     *)
DirectControlsSwappedY(sourceCoords, targetCoords) ==
    LET oneMinusScale ==
            PathUnit - (PathUnit \div 2
                        + Min(Abs(sourceCoords.y - targetCoords.y), MaxScaledYDelta))
        leftMostX == IF sourceCoords.x < targetCoords.x THEN sourceCoords.x
                     ELSE targetCoords.x
        offsetFromOpposite == Abs(sourceCoords.x - targetCoords.x) * oneMinusScale
    IN  [control1 |-> Point(IF targetCoords.x = leftMostX
                            THEN PathUnit * targetCoords.x + offsetFromOpposite
                            ELSE PathUnit * targetCoords.x - offsetFromOpposite,
                            PathUnit * targetCoords.y),
         control2 |-> Point(IF sourceCoords.x = leftMostX
                            THEN PathUnit * sourceCoords.x + offsetFromOpposite
                            ELSE PathUnit * sourceCoords.x - offsetFromOpposite,
                            PathUnit * sourceCoords.y)]

DirectControls(sourceCoords, targetCoords) ==
    LET oneMinusScale ==
            PathUnit - (PathUnit \div 2
                        + Min(Abs(sourceCoords.y - targetCoords.y), MaxScaledYDelta))
        leftMostX == IF sourceCoords.x < targetCoords.x THEN sourceCoords.x
                     ELSE targetCoords.x
        offsetFromOpposite == Abs(sourceCoords.x - targetCoords.x) * oneMinusScale
    IN  [control1 |-> Point(IF targetCoords.x = leftMostX
                            THEN PathUnit * targetCoords.x + offsetFromOpposite
                            ELSE PathUnit * targetCoords.x - offsetFromOpposite,
                            PathUnit * sourceCoords.y),
         control2 |-> Point(IF sourceCoords.x = leftMostX
                            THEN PathUnit * sourceCoords.x + offsetFromOpposite
                            ELSE PathUnit * sourceCoords.x - offsetFromOpposite,
                            PathUnit * targetCoords.y)]

(* the control points of an indirect path                                  *)
IndirectControls(sourceCoords, targetCoords) ==
    LET rightMostX == IF sourceCoords.x > targetCoords.x THEN sourceCoords.x
                      ELSE targetCoords.x
    IN  [control1 |-> Point(PathUnit * (rightMostX + IndirectControlOffset),
                            PathUnit * sourceCoords.y),
         control2 |-> Point(PathUnit * (rightMostX + IndirectControlOffset),
                            PathUnit * targetCoords.y)]

calculateLinkPath(linkCoords) ==
    LET sourceCoords == linkCoords.sourceCoords
        targetCoords == linkCoords.targetCoords
        controls == IF linkCoords.useDirectPath
                    THEN DirectControls(sourceCoords, targetCoords)
                    ELSE IndirectControls(sourceCoords, targetCoords)
    IN  [M |-> Point(PathUnit * sourceCoords.x, PathUnit * sourceCoords.y),
         C |-> <<controls.control1, controls.control2,
                 Point(PathUnit * targetCoords.x, PathUnit * targetCoords.y)>>]

(* calculateLinkPaths: a path per link; the first throw aborts the batch.  *)
LinkPathsThrow(linksById, tableConfigs, tableCoords) ==
    \E linkId \in DOMAIN linksById :
        calculateLinkCoords(linksById[linkId], tableCoords, tableConfigs).threw

calculateLinkPaths(linksById, tableConfigs, tableCoords) ==
    [linkId \in DOMAIN linksById |->
        calculateLinkPath(calculateLinkCoords(linksById[linkId], tableCoords, tableConfigs))]

---------------------------------------------------------------------------
(* The settings hook: frontend/LinkContainer.js, useSettings               *)

(* the link paths are left as the render before had them                   *)
keepLinkPathsByLinkId(linkPaths, newLinkPaths) == linkPaths

(* the setter of useState: the next render has the value it is given       *)
setLinkPathsByLinkId(linkPaths, newLinkPaths) == newLinkPaths

(* The useWatchable(base, ['schema'], ...) callback, run by the host SDK   *)
(* in the same turn of the event loop as the change of the base it         *)
(* announces.  A throw of calculateLinkPaths leaves the callback before    *)
(* any of its three updates.                                               *)
SchemaChanged(newBase) ==
    LET newSchema == parseSchema(newBase)
        newTableCoords == getUpdatedTableCoords(newSchema.tableConfigsByTableId,
                                                tableCoordsByTableId)
    IN  IF LinkPathsThrow(newSchema.linksById, newSchema.tableConfigsByTableId,
                          newTableCoords)
        THEN /\ crashed' = TRUE
             /\ UNCHANGED <<baseSchema, tableCoordsByTableId, linkPathsByLinkId>>
        ELSE /\ crashed' = FALSE
             /\ tableCoordsByTableId' = newTableCoords
             /\ baseSchema' = newSchema
             /\ linkPathsByLinkId' =
                    setLinkPathsByLinkId(linkPathsByLinkId,
                        calculateLinkPaths(newSchema.linksById,
                            newSchema.tableConfigsByTableId, newTableCoords))

---------------------------------------------------------------------------
(* What React puts in the DOM: frontend/TableContainer.js, SvgTable and    *)
(* LinkContainer (frontend/LinkContainer.js).  React writes an attribute   *)
(* when the prop of this render differs from the prop of the render        *)
(* before, and leaves what a handler wrote to the DOM otherwise.           *)

RenderedTableIds(schema) ==
    {schema.tableConfigsByTableId[i].tableId : i \in 1..Len(schema.tableConfigsByTableId)}

(* SvgTable reads x and y off its coords prop: a table without             *)
(* coordinates draws nothing (const {x, y} = coords throws).               *)
RenderTableElements(elements, oldTableCoords, newTableCoords, schema) ==
    [tableId \in RenderedTableIds(schema) \cap DOMAIN newTableCoords |->
        IF /\ tableId \in DOMAIN elements
           /\ tableId \in DOMAIN oldTableCoords
           /\ newTableCoords[tableId] = oldTableCoords[tableId]
        THEN elements[tableId]
        ELSE newTableCoords[tableId]]

(* a path element whose d prop is undefined has no d attribute             *)
NoPath == [M |-> Point(Undefined, Undefined), C |-> <<>>]

(* linkPathsByLinkId[link.id]                                              *)
PathProp(linkPaths, linkId) ==
    IF linkId \in DOMAIN linkPaths THEN linkPaths[linkId] ELSE NoPath

RenderLinkElements(elements, oldLinkPaths, newLinkPaths, schema) ==
    [linkId \in DOMAIN schema.linksById |->
        IF /\ linkId \in DOMAIN elements
           /\ PathProp(newLinkPaths, linkId) = PathProp(oldLinkPaths, linkId)
        THEN elements[linkId]
        ELSE PathProp(newLinkPaths, linkId)]

(* the ids of the elements document.getElementById finds                   *)
ElementIds(schema) == DOMAIN schema.nodesById \cup DOMAIN schema.linksById

(* the saved coordinates as they are                                       *)
SavedTableCoords(schema, savedTableCoords) == savedTableCoords

(* useSettings on a render that is not the first run: tables missing from  *)
(* the saved coords get coordinates, which are saved.                      *)
RenderTableCoords(schema, savedTableCoords) ==
    IF Len(newTableIds(schema.tableConfigsByTableId, savedTableCoords)) > 0
    THEN getUpdatedTableCoords(schema.tableConfigsByTableId, savedTableCoords)
    ELSE savedTableCoords

---------------------------------------------------------------------------
(* Table dragging: frontend/DragWrapper.js                                 *)

(* !globalConfig.hasPermissionToSet() returns before anything is done      *)
AnyoneMayDrag(hasPermissionToSet) == TRUE

MayDrag(hasPermissionToSet) == hasPermissionToSet

(* What the two handlers registered by a press close over: the table id    *)
(* and the props of DragWrapper in the render of the press.                *)
NewListeners(tableId) ==
    [tableId |-> tableId,
     tableCoordsByTableId |-> tableCoordsByTableId,
     tableConfigsByTableId |-> baseSchema.tableConfigsByTableId,
     dependentLinksByNodeId |-> baseSchema.dependentLinksByNodeId]

(* currentX + mouseMoveEvent.movementX / realZoom, and the same for y      *)
MovedBy(coords, mouseMoveEvent) ==
    [x |-> coords.x + mouseMoveEvent.movementX \div mouseMoveEvent.realZoom,
     y |-> coords.y + mouseMoveEvent.movementY \div mouseMoveEvent.realZoom]

(* the map without the spread of the new entry                             *)
WithoutLivePosition(coordsByTableId, tableId, coords) == coordsByTableId

(* {...tableCoordsByTableId, [tableId]: coords}                            *)
WithTableAt(coordsByTableId, tableId, coords) == (tableId :> coords) @@ coordsByTableId

(* The loop of mouseMoveHandler over dependentLinksByNodeId[tableId]: a    *)
(* link without an element is skipped, a throw of calculateLinkCoords      *)
(* leaves the handler.                                                     *)
RECURSIVE UpdateDependentLinks(_, _, _, _)
UpdateDependentLinks(listener, newCoords, links, elements) ==
    IF links = <<>>
    THEN elements
    ELSE LET link == Head(links)
             linkCoords ==
                 calculateLinkCoords(link,
                     WithTableAt(listener.tableCoordsByTableId, listener.tableId, newCoords),
                     listener.tableConfigsByTableId)
         IN  IF link.id \notin DOMAIN elements
             THEN UpdateDependentLinks(listener, newCoords, Tail(links), elements)
             ELSE IF linkCoords.threw
             THEN elements
             ELSE UpdateDependentLinks(listener, newCoords, Tail(links),
                      [elements EXCEPT ![link.id] = calculateLinkPath(linkCoords)])

(* mouseMoveHandler of one listener, on the DOM dom = [tables, links]      *)
mouseMoveHandler(listener, dom, mouseMoveEvent) ==
    LET newCoords == MovedBy(dom.tables[listener.tableId], mouseMoveEvent)
    IN  [tables |-> [dom.tables EXCEPT ![listener.tableId] = newCoords],
         links |-> UpdateDependentLinks(listener, newCoords,
                       listener.dependentLinksByNodeId[listener.tableId], dom.links)]

(* a mousemove on window runs the handlers in the order of registration    *)
RECURSIVE DispatchMouseMove(_, _, _)
DispatchMouseMove(listeners, dom, mouseMoveEvent) ==
    IF listeners = <<>>
    THEN dom
    ELSE DispatchMouseMove(Tail(listeners),
             mouseMoveHandler(Head(listeners), dom, mouseMoveEvent), mouseMoveEvent)

(* updateTableCoords of the render the listener closes over, called by     *)
(* mouseUpHandler with the x, y attributes of the table element            *)
updateTableCoords(listener, elements) ==
    WithTableAt(listener.tableCoordsByTableId, listener.tableId, elements[listener.tableId])

(* a mouseup on window runs every mouseUpHandler: the values written       *)
DispatchMouseUp(listeners, elements) ==
    [i \in 1..Len(listeners) |-> updateTableCoords(listeners[i], elements)]

(* LinkContainer: the paths of the DOM are never pushed back into React    *)
PushedBackFromDOM(linkPaths, elements) == elements

LinkPathsAfterDrag(linkPaths, elements) == linkPaths

(* DragWrapper registers no effect clean-up: unmounting it leaves the      *)
(* listeners of window as they are.                                        *)
ListenersAfterUnmount(listeners) == listeners

---------------------------------------------------------------------------
(* Hover highlighting: frontend/HighlightWrapper.js                        *)

(* dependentLinks.forEach(link => idsToHighlight.push(link.id,             *)
(* link.targetId, link.sourceId))                                          *)
RECURSIVE PushDependentLinks(_, _)
PushDependentLinks(dependentLinks, ids) ==
    IF dependentLinks = <<>>
    THEN ids
    ELSE PushDependentLinks(Tail(dependentLinks),
             ids \o <<Head(dependentLinks).id, Head(dependentLinks).targetId,
                      Head(dependentLinks).sourceId>>)

(* the hovered node alone                                                  *)
HoveredOnly(schema, hoveredNodeOrLinkId, isNode) == <<hoveredNodeOrLinkId>>

(* lines 138-149: the array idsToHighlight                                 *)
IdsToHighlight(schema, hoveredNodeOrLinkId, isNode) ==
    IF isNode
    THEN PushDependentLinks(
             IF hoveredNodeOrLinkId \in DOMAIN schema.dependentLinksByNodeId
             THEN schema.dependentLinksByNodeId[hoveredNodeOrLinkId]
             ELSE <<>>,
             <<>>)
    ELSE LET link == schema.linksById[hoveredNodeOrLinkId]
         IN  <<link.id, link.sourceId, link.targetId>>

(* the condition of the first return of onNodeOrLinkMouseOver              *)
HoverIgnored(hoveredNode, hoveredLink) ==
    \/ (hoveredNode = NoId /\ hoveredLink = NoId)
    \/ (hoveredNode # NoId /\ hoveredLink # NoId)
    \/ ~panEnabled

---------------------------------------------------------------------------
(* The host base (base.tables, table.fields, field.options) and the edits  *)
(* the host makes to it.  Ids are never handed out twice while anything    *)
(* still mentions them.  A deleted table or field may still be referred to *)
(* by the options of the fields that remain (parseSchema.js, the comment   *)
(* above the defensive filter).                                            *)

TableIdAt(i) == "tbl" \o ToString(i)

FieldIdAt(i) == "fld" \o ToString(i)

NoOptions ==
    [isValid |-> TRUE,
     inverseLinkFieldId |-> NoId,
     linkedTableId |-> NoId,
     referencedFieldIds |-> <<>>,
     recordLinkFieldId |-> NoId,
     fieldIdInLinkedTable |-> NoId]

NewField(id, type, options) == [id |-> id, type |-> type, options |-> options]

TableIndexes(b) == 1..Len(b)

FieldsOf(b) == UNION {{b[t].fields[i] : i \in 1..Len(b[t].fields)} : t \in TableIndexes(b)}

LiveTableIds(b) == {b[t].id : t \in TableIndexes(b)}

LiveFieldIds(b) == {f.id : f \in FieldsOf(b)}

SeqRange(s) == {s[i] : i \in 1..Len(s)}

(* every field id the options of a field mention                           *)
FieldRefs(f) ==
    ({f.options.inverseLinkFieldId, f.options.recordLinkFieldId,
      f.options.fieldIdInLinkedTable} \cup SeqRange(f.options.referencedFieldIds))
    \ {NoId}

(* the host never hands out an id twice                                    *)
HasFreshTableId == idsHandedOut.tables < MaxTableIds

FreshTableId == TableIdAt(idsHandedOut.tables + 1)

HasFreshFieldIds(n) == idsHandedOut.fields + n <= MaxFieldIds

(* the k-th fresh field id, k = 1, 2                                       *)
FreshFieldId(k) == FieldIdAt(idsHandedOut.fields + k)

HasRoom(b, t) == Len(b[t].fields) < MaxFieldsPerTable

AppendField(b, t, field) == [b EXCEPT ![t].fields = Append(@, field)]

RemoveAt(s, i) == SubSeq(s, 1, i - 1) \o SubSeq(s, i + 1, Len(s))

HostIdle == pc = "app" /\ mounted

(* an edit of the base, and the schema watch it triggers                   *)
HostEdit(newBase, tableIds, newFieldIds) ==
    /\ base' = newBase
    /\ idsHandedOut' = [tables |-> idsHandedOut.tables + tableIds,
                        fields |-> idsHandedOut.fields + newFieldIds]
    /\ SchemaChanged(newBase)
    /\ tableElements' = RenderTableElements(tableElements, tableCoordsByTableId,
                                            tableCoordsByTableId', baseSchema')
    /\ linkElements' = RenderLinkElements(linkElements, linkPathsByLinkId,
                                          linkPathsByLinkId', baseSchema')
    /\ highlighted' = highlighted \cap ElementIds(baseSchema')
    /\ event' = [type |-> "schema"]
    /\ written' = IF crashed' THEN <<>> ELSE <<tableCoordsByTableId'>>
    /\ UNCHANGED <<mounted, panEnabled, windowListeners, hoveredNodeOrLinkRef,
                   idsToHighlight, pointerEvents>>
    /\ UNCHANGED harnessVars

(* a new table, with its primary field                                     *)
HostCreateTable ==
    /\ HostIdle
    /\ HasFreshTableId
    /\ HasFreshFieldIds(1)
    /\ HostEdit(Append(base,
           [id |-> FreshTableId,
            fields |-> <<NewField(FreshFieldId(1), SINGLE_LINE_TEXT, NoOptions)>>]),
           1, 1)

(* a linked-record field to another table, with its mirror field there     *)
HostCreateLinkedRecordField ==
    /\ HostIdle
    /\ HasFreshFieldIds(2)
    /\ \E t, u \in TableIndexes(base) :
        /\ t # u
        /\ HasRoom(base, t)
        /\ HasRoom(base, u)
        /\ LET a == FreshFieldId(1)
               m == FreshFieldId(2)
           IN  HostEdit(AppendField(
                   AppendField(base, t,
                       NewField(a, MULTIPLE_RECORD_LINKS,
                           [NoOptions EXCEPT !.inverseLinkFieldId = m,
                                             !.linkedTableId = base[u].id])),
                   u,
                   NewField(m, MULTIPLE_RECORD_LINKS,
                       [NoOptions EXCEPT !.inverseLinkFieldId = a,
                                         !.linkedTableId = base[t].id])),
                   0, 2)

(* a linked-record field to its own table: no mirror field                 *)
HostCreateSelfLinkField ==
    /\ HostIdle
    /\ HasFreshFieldIds(1)
    /\ \E t \in TableIndexes(base) :
        /\ HasRoom(base, t)
        /\ HostEdit(AppendField(base, t,
               NewField(FreshFieldId(1), MULTIPLE_RECORD_LINKS,
                   [NoOptions EXCEPT !.linkedTableId = base[t].id])),
               0, 1)

(* a formula over one or two fields of its table                           *)
HostCreateFormulaField ==
    /\ HostIdle
    /\ HasFreshFieldIds(1)
    /\ \E t \in TableIndexes(base) :
        /\ HasRoom(base, t)
        /\ \E i, j \in 1..Len(base[t].fields) :
            /\ i <= j
            /\ HostEdit(AppendField(base, t,
                   NewField(FreshFieldId(1), FORMULA,
                       [NoOptions EXCEPT !.referencedFieldIds =
                           IF i = j THEN <<base[t].fields[i].id>>
                           ELSE <<base[t].fields[i].id, base[t].fields[j].id>>])),
                   0, 1)

(* a count over a linked-record field of its table                         *)
HostCreateCountField ==
    /\ HostIdle
    /\ HasFreshFieldIds(1)
    /\ \E t \in TableIndexes(base) :
        /\ HasRoom(base, t)
        /\ \E i \in 1..Len(base[t].fields) :
            /\ base[t].fields[i].type = MULTIPLE_RECORD_LINKS
            /\ HostEdit(AppendField(base, t,
                   NewField(FreshFieldId(1), COUNT,
                       [NoOptions EXCEPT !.recordLinkFieldId = base[t].fields[i].id])),
                   0, 1)

(* a lookup (no referenced fields) or a rollup (with or without one)       *)
(* through a linked-record field of its table, of a field of the linked    *)
(* table                                                                   *)
HostCreateLookupOrRollupField ==
    /\ HostIdle
    /\ HasFreshFieldIds(1)
    /\ \E t, u \in TableIndexes(base) :
        /\ HasRoom(base, t)
        /\ \E i \in 1..Len(base[t].fields), k \in 1..Len(base[u].fields) :
            /\ base[t].fields[i].type = MULTIPLE_RECORD_LINKS
            /\ base[t].fields[i].options.linkedTableId = base[u].id
            /\ \E type \in {MULTIPLE_LOOKUP_VALUES, ROLLUP} :
               \E refs \in {<<>>} \cup
                           (IF type = ROLLUP THEN {<<base[t].fields[1].id>>} ELSE {}) :
                   HostEdit(AppendField(base, t,
                       NewField(FreshFieldId(1), type,
                           [NoOptions EXCEPT
                               !.recordLinkFieldId = base[t].fields[i].id,
                               !.fieldIdInLinkedTable = base[u].fields[k].id,
                               !.referencedFieldIds = refs])),
                       0, 1)

(* a table is deleted; fields of other tables may still refer to it        *)
HostDeleteTable ==
    /\ HostIdle
    /\ Len(base) > 1
    /\ \E t \in TableIndexes(base) :
           /\ \A i \in 1..Len(windowListeners) : windowListeners[i].tableId # base[t].id
           /\ HostEdit(RemoveAt(base, t), 0, 0)

(* a field other than the primary field is deleted; other fields may still *)
(* refer to it                                                             *)
HostDeleteField ==
    /\ HostIdle
    /\ \E t \in TableIndexes(base) :
       \E i \in 2..Len(base[t].fields) :
           HostEdit([base EXCEPT ![t].fields = RemoveAt(@, i)], 0, 0)

(* the host flags a computed field whose reference is gone as invalid      *)
HostInvalidateField ==
    /\ HostIdle
    /\ \E t \in TableIndexes(base) :
       \E i \in 1..Len(base[t].fields) :
           /\ base[t].fields[i].type \in {FORMULA, COUNT, MULTIPLE_LOOKUP_VALUES, ROLLUP}
           /\ base[t].fields[i].options.isValid
           /\ ~(FieldRefs(base[t].fields[i]) \subseteq LiveFieldIds(base))
           /\ HostEdit([base EXCEPT ![t].fields[i].options.isValid = FALSE], 0, 0)

---------------------------------------------------------------------------
(* The base the block is first run on: one table with its primary field.   *)
InitialBase ==
    <<[id |-> TableIdAt(1),
       fields |-> <<NewField(FieldIdAt(1), SINGLE_LINE_TEXT, NoOptions)>>]>>

(* The first render of useSettings on a base with no persisted coords.     *)
Init ==
    /\ base = InitialBase
    /\ idsHandedOut = [tables |-> 1, fields |-> 1]
    /\ baseSchema = parseSchema(InitialBase)
    /\ tableCoordsByTableId =
           getInitialTableCoords(parseSchema(InitialBase).tableConfigsByTableId)
    /\ linkPathsByLinkId =
           calculateLinkPaths(parseSchema(InitialBase).linksById,
               parseSchema(InitialBase).tableConfigsByTableId,
               getInitialTableCoords(parseSchema(InitialBase).tableConfigsByTableId))
    /\ crashed = FALSE
    /\ mounted = TRUE
    /\ panEnabled = TRUE
    /\ windowListeners = <<>>
    /\ tableElements =
           getInitialTableCoords(parseSchema(InitialBase).tableConfigsByTableId)
    /\ linkElements = linkPathsByLinkId
    /\ hoveredNodeOrLinkRef = NoId
    /\ idsToHighlight = <<>>
    /\ highlighted = {}
    /\ pointerEvents = [mousedown |-> 0, mousemove |-> 0]
    /\ event = [type |-> "firstRun"]
    /\ written = <<getInitialTableCoords(parseSchema(InitialBase).tableConfigsByTableId)>>
    /\ pc = "app"
    /\ fn = "none"
    /\ args = <<>>
    /\ ret = <<>>

Next ==
    \/ HostCreateTable
    \/ HostCreateLinkedRecordField
    \/ HostCreateSelfLinkField
    \/ HostCreateFormulaField
    \/ HostCreateCountField
    \/ HostCreateLookupOrRollupField
    \/ HostDeleteTable
    \/ HostDeleteField
    \/ HostInvalidateField

Spec == Init /\ [][Next]_vars

---------------------------------------------------------------------------
(* The pointer events of a session, interleaved with schema changes.       *)

MaxPointerEvents == 2   \* presses that start a drag and moves while dragging

PointerEventsLeft ==
    pointerEvents.mousedown + pointerEvents.mousemove < MaxPointerEvents

(* movementX, movementY and the zoom of svgPanZoom.getSizes()              *)
MouseMoveEvents ==
    {[movementX |-> 400, movementY |-> 80, realZoom |-> z] : z \in {1, 2}}

(* mousedown on the header row of a rendered table: handleTableDrag        *)
HandleTableDrag ==
    /\ HostIdle
    /\ PointerEventsLeft
    /\ \E tableId \in DOMAIN tableElements, hasPermissionToSet \in BOOLEAN :
           /\ event' = [type |-> "mousedown", hasPermissionToSet |-> hasPermissionToSet]
           /\ IF MayDrag(hasPermissionToSet)
              THEN /\ panEnabled' = FALSE
                   /\ windowListeners' = Append(windowListeners, NewListeners(tableId))
                   /\ pointerEvents' = [pointerEvents EXCEPT !.mousedown = @ + 1]
              ELSE UNCHANGED <<panEnabled, windowListeners, pointerEvents>>
    /\ written' = <<>>
    /\ UNCHANGED <<base, idsHandedOut, baseSchema, tableCoordsByTableId, linkPathsByLinkId,
                   crashed, mounted, tableElements, linkElements, hoveredNodeOrLinkRef,
                   idsToHighlight, highlighted, harnessVars>>

(* mousemove on window while handlers are registered                       *)
MouseMove ==
    /\ HostIdle
    /\ windowListeners # <<>>
    /\ PointerEventsLeft
    /\ \E mouseMoveEvent \in MouseMoveEvents :
           LET dom == DispatchMouseMove(windowListeners,
                          [tables |-> tableElements, links |-> linkElements],
                          mouseMoveEvent)
           IN  /\ tableElements' = dom.tables
               /\ linkElements' = dom.links
               /\ linkPathsByLinkId' = LinkPathsAfterDrag(linkPathsByLinkId, dom.links)
    /\ pointerEvents' = [pointerEvents EXCEPT !.mousemove = @ + 1]
    /\ event' = [type |-> "mousemove"]
    /\ written' = <<>>
    /\ UNCHANGED <<base, idsHandedOut, baseSchema, tableCoordsByTableId, crashed, mounted,
                   panEnabled, windowListeners, hoveredNodeOrLinkRef, idsToHighlight,
                   highlighted, harnessVars>>

(* mouseup on window: every mouseUpHandler commits, then useSettings       *)
(* renders on the saved coordinates                                        *)
MouseUp ==
    /\ HostIdle
    /\ windowListeners # <<>>
    /\ LET commits == DispatchMouseUp(windowListeners, tableElements)
           saved == commits[Len(commits)]
           rendered == RenderTableCoords(baseSchema, saved)
       IN  /\ tableCoordsByTableId' = rendered
           /\ written' = IF rendered = saved THEN commits ELSE Append(commits, rendered)
           /\ tableElements' = RenderTableElements(tableElements, tableCoordsByTableId,
                                                   rendered, baseSchema)
    /\ windowListeners' = <<>>
    /\ panEnabled' = TRUE
    /\ linkPathsByLinkId' = LinkPathsAfterDrag(linkPathsByLinkId, linkElements)
    /\ event' = [type |-> "mouseup"]
    /\ UNCHANGED <<base, idsHandedOut, baseSchema, crashed, mounted, linkElements,
                   hoveredNodeOrLinkRef, idsToHighlight, highlighted, pointerEvents,
                   harnessVars>>

(* mousemove over the table or link container: onNodeOrLinkMouseOver with  *)
(* what querySelector(':hover') finds                                      *)
OnNodeOrLinkMouseOver ==
    /\ HostIdle
    /\ \E hoveredNode \in DOMAIN baseSchema.nodesById \cup {NoId},
          hoveredLink \in DOMAIN baseSchema.linksById \cup {NoId} :
           LET hoveredNodeOrLinkId == IF hoveredNode # NoId THEN hoveredNode ELSE hoveredLink
           IN  IF HoverIgnored(hoveredNode, hoveredLink)
                  \/ hoveredNodeOrLinkRef = hoveredNodeOrLinkId
               THEN /\ event' = [type |-> "mouseover", handled |-> FALSE]
                    /\ UNCHANGED <<hoveredNodeOrLinkRef, idsToHighlight, highlighted>>
               ELSE /\ event' = [type |-> "mouseover", handled |-> TRUE]
                    /\ hoveredNodeOrLinkRef' = hoveredNodeOrLinkId
                    /\ idsToHighlight' =
                           IdsToHighlight(baseSchema, hoveredNodeOrLinkId, hoveredNode # NoId)
                    /\ highlighted' =
                           {idsToHighlight'[i] : i \in 1..Len(idsToHighlight')}
                               \cap ElementIds(baseSchema)
    /\ written' = <<>>
    /\ UNCHANGED <<base, idsHandedOut, baseSchema, tableCoordsByTableId, linkPathsByLinkId,
                   crashed, mounted, panEnabled, windowListeners, tableElements,
                   linkElements, pointerEvents, harnessVars>>

(* mouseout with nothing hovered any more: onNodeOrLinkMouseOut            *)
OnNodeOrLinkMouseOut ==
    /\ HostIdle
    /\ panEnabled
    /\ hoveredNodeOrLinkRef # NoId
    /\ hoveredNodeOrLinkRef' = NoId
    /\ idsToHighlight' = <<>>
    /\ highlighted' = {}
    /\ event' = [type |-> "mouseout"]
    /\ written' = <<>>
    /\ UNCHANGED <<base, idsHandedOut, baseSchema, tableCoordsByTableId, linkPathsByLinkId,
                   crashed, mounted, panEnabled, windowListeners, tableElements,
                   linkElements, pointerEvents, harnessVars>>

(* React unmounts the tree (an error thrown by a render, the block closed) *)
Unmount ==
    /\ HostIdle
    /\ mounted' = FALSE
    /\ windowListeners' = ListenersAfterUnmount(windowListeners)
    /\ event' = [type |-> "unmount"]
    /\ written' = <<>>
    /\ UNCHANGED <<base, idsHandedOut, baseSchema, tableCoordsByTableId, linkPathsByLinkId,
                   crashed, panEnabled, tableElements, linkElements, hoveredNodeOrLinkRef,
                   idsToHighlight, highlighted, pointerEvents, harnessVars>>

NextInteraction ==
    \/ HostCreateTable
    \/ HostCreateLinkedRecordField
    \/ HostCreateSelfLinkField
    \/ HostDeleteTable
    \/ HandleTableDrag
    \/ MouseMove
    \/ MouseUp
    \/ Unmount

SpecInteraction == Init /\ [][NextInteraction]_vars

(* The hover events of a session, interleaved with schema changes.         *)
NextHover ==
    \/ HostCreateTable
    \/ HostCreateLinkedRecordField
    \/ HostCreateFormulaField
    \/ HostDeleteTable
    \/ OnNodeOrLinkMouseOver
    \/ OnNodeOrLinkMouseOut

SpecHover == Init /\ [][NextHover]_vars

---------------------------------------------------------------------------
(* The layout functions and the path router applied to enumerated inputs.  *)
(* The variables of the block keep the values of a base with no table.     *)

NoBlock ==
    /\ base = <<>>
    /\ idsHandedOut = [tables |-> 0, fields |-> 0]
    /\ baseSchema = parseSchema(<<>>)
    /\ tableCoordsByTableId = EmptyMap
    /\ linkPathsByLinkId = EmptyMap
    /\ crashed = FALSE
    /\ mounted = TRUE
    /\ panEnabled = TRUE
    /\ windowListeners = <<>>
    /\ tableElements = EmptyMap
    /\ linkElements = EmptyMap
    /\ hoveredNodeOrLinkRef = NoId
    /\ idsToHighlight = <<>>
    /\ highlighted = {}
    /\ pointerEvents = [mousedown |-> 0, mousemove |-> 0]
    /\ event = [type |-> "none"]
    /\ written = <<>>

MaxInitialTables == 10  \* tables given to getInitialTableCoords
MaxUpdateTables == 3    \* tables given to getUpdatedTableCoords

(* field counts of the tables laid out: heights 114 and 178                *)
LayoutFieldCounts == {1, 3}

(* a table config as parseSchema builds it: table t with n fields          *)
LayoutConfig(t, n) ==
    [tableId |-> TableIdAt(t),
     tableNode |-> [id |-> TableIdAt(t), type |-> "table", tableId |-> TableIdAt(t)],
     fieldNodes |-> [k \in 1..n |->
                        [id |-> FieldIdAt(10 * t + k), type |-> "field",
                         tableId |-> TableIdAt(t)]]]

ConfigsOfCounts(counts) == [t \in 1..Len(counts) |-> LayoutConfig(t, counts[t])]

CountSeqs(maxLen) == UNION {[1..n -> LayoutFieldCounts] : n \in 0..maxLen}

InitialLayoutInputs ==
    {[tableConfigsByTableId |-> ConfigsOfCounts(c)] : c \in CountSeqs(MaxInitialTables)}

(* a table id with a coordinate and, possibly, no table any more           *)
StaleTableId == TableIdAt(0)

OldCoordValues == {[x |-> x, y |-> y] : x \in {0, 230}, y \in {0, 114}}

OldCoordIdSets(counts) ==
    SUBSET ({TableIdAt(t) : t \in 1..Len(counts)} \cup {StaleTableId})

InitLayout ==
    /\ NoBlock
    /\ pc = "input"
    /\ \/ fn = "getInitialTableCoords" /\ args \in InitialLayoutInputs
       \/ /\ fn = "getUpdatedTableCoords"
          /\ \E c \in CountSeqs(MaxUpdateTables) :
                 \E ids \in OldCoordIdSets(c) :
                    \E o \in [ids -> OldCoordValues] :
                       args = [newTableConfigs |-> ConfigsOfCounts(c),
                               oldTableCoords |-> o]
    /\ ret = <<>>

CallGetInitialTableCoords ==
    /\ pc = "input"
    /\ fn = "getInitialTableCoords"
    /\ ret' = getInitialTableCoords(args.tableConfigsByTableId)
    /\ pc' = "returned"
    /\ UNCHANGED <<fn, args, appVars>>

CallGetUpdatedTableCoords ==
    /\ pc = "input"
    /\ fn = "getUpdatedTableCoords"
    /\ ret' = getUpdatedTableCoords(args.newTableConfigs, args.oldTableCoords)
    /\ pc' = "returned"
    /\ UNCHANGED <<fn, args, appVars>>

NextLayout ==
    \/ CallGetInitialTableCoords
    \/ CallGetUpdatedTableCoords

SpecLayout == InitLayout /\ [][NextLayout]_vars

(* Parser inputs: the snapshots of two tables, the first of two fields and  *)
(* the second of one, in which every field is of any type and its options  *)
(* name any other field and either table, flagged invalid or not.  A       *)
(* schema update can carry fields that still refer to what was deleted or  *)
(* changed (parseSchema.js, the comment above the defensive filter).       *)
SnapshotFieldIds == {FieldIdAt(1), FieldIdAt(2), FieldIdAt(3)}

SnapshotTableIds == {TableIdAt(1), TableIdAt(2)}

SnapshotOptions(id) ==
    LET others == SnapshotFieldIds \ {id}
    IN  (SINGLE_LINE_TEXT :> {NoOptions})
        @@ (MULTIPLE_RECORD_LINKS :>
               {[NoOptions EXCEPT !.inverseLinkFieldId = f, !.linkedTableId = t] :
                   f \in others \cup {NoId}, t \in SnapshotTableIds})
        @@ (FORMULA :> {[NoOptions EXCEPT !.referencedFieldIds = <<f>>] : f \in others})
        @@ (COUNT :> {[NoOptions EXCEPT !.recordLinkFieldId = f] : f \in others})
        @@ (MULTIPLE_LOOKUP_VALUES :>
               {[NoOptions EXCEPT !.recordLinkFieldId = f, !.fieldIdInLinkedTable = g] :
                   f \in others, g \in others})
        @@ (ROLLUP :>
               {[NoOptions EXCEPT !.recordLinkFieldId = f, !.fieldIdInLinkedTable = g,
                                  !.referencedFieldIds = <<g>>] :
                   f \in others, g \in others})

SnapshotFields(id) ==
    UNION {{NewField(id, type, [o EXCEPT !.isValid = v]) :
               o \in SnapshotOptions(id)[type], v \in BOOLEAN} :
           type \in DOMAIN SnapshotOptions(id)}

InitParse ==
    /\ NoBlock
    /\ pc = "input"
    /\ fn = "parseSchema"
    /\ \E f1 \in SnapshotFields(FieldIdAt(1)), f2 \in SnapshotFields(FieldIdAt(2)),
          f3 \in SnapshotFields(FieldIdAt(3)) :
           args = [base |-> <<[id |-> TableIdAt(1), fields |-> <<f1, f2>>],
                              [id |-> TableIdAt(2), fields |-> <<f3>>]>>]
    /\ ret = <<>>

CallParseSchema ==
    /\ pc = "input"
    /\ fn = "parseSchema"
    /\ ret' = parseSchema(args.base)
    /\ pc' = "returned"
    /\ UNCHANGED <<fn, args, appVars>>

NextParse == CallParseSchema

SpecParse == InitParse /\ [][NextParse]_vars

(* Router inputs: two tables of two fields each, table 2 fixed, table 1 at *)
(* horizontal distances around ROW_WIDTH on either side of it.             *)
RouteConfigs == ConfigsOfCounts(<<2, 2>>)

RouteTableCoords ==
    {(TableIdAt(1) :> [x |-> 400 + dx, y |-> y]) @@ (TableIdAt(2) :> [x |-> 400, y |-> 0]) :
        dx \in {-360, -181, -180, -179, 0, 179, 180, 181, 360}, y \in {0, 500}}

RouteLinks ==
    {[id |-> createLinkId(s, t), sourceId |-> s, sourceTableId |-> st,
      targetId |-> t, targetTableId |-> tt, type |-> FORMULA] :
        s \in {FieldIdAt(11), FieldIdAt(12), FieldIdAt(21)},
        st \in {TableIdAt(1), TableIdAt(2)},
        t \in {FieldIdAt(11), FieldIdAt(22), FieldIdAt(99), TableIdAt(1), TableIdAt(2)},
        tt \in {TableIdAt(1), TableIdAt(2)}}

LinkCoordsInputs ==
    {[link |-> l, tableCoordsByTableId |-> c, tableConfigsByTableId |-> RouteConfigs] :
        l \in RouteLinks, c \in RouteTableCoords}

(* calculateLinkPath is exported: inputs given to it directly              *)
LinkPathInputs ==
    {[threw |-> FALSE, sourceCoords |-> Point(sx, sy), targetCoords |-> Point(tx, ty),
      useDirectPath |-> d] :
        sx \in {0, 300}, sy \in {0, 100, 400}, tx \in {0, 300}, ty \in {0, 100, 400},
        d \in BOOLEAN}

InitRoute ==
    /\ NoBlock
    /\ pc = "input"
    /\ \/ fn = "calculateLinkCoords" /\ args \in LinkCoordsInputs
       \/ fn = "calculateLinkPath" /\ args \in LinkPathInputs
    /\ ret = <<>>

CallCalculateLinkCoords ==
    /\ pc = "input"
    /\ fn = "calculateLinkCoords"
    /\ ret' = calculateLinkCoords(args.link, args.tableCoordsByTableId,
                                  args.tableConfigsByTableId)
    /\ pc' = "returned"
    /\ UNCHANGED <<fn, args, appVars>>

(* calculateLinkPath on given link coords, or on those just returned by    *)
(* calculateLinkCoords (calculateLinkPaths, mouseMoveHandler)              *)
CallCalculateLinkPath ==
    /\ \/ /\ pc = "input"
          /\ fn = "calculateLinkPath"
          /\ ret' = calculateLinkPath(args)
          /\ UNCHANGED <<fn, args>>
       \/ /\ pc = "returned"
          /\ fn = "calculateLinkCoords"
          /\ ~ret.threw
          /\ fn' = "calculateLinkPath"
          /\ args' = ret
          /\ ret' = calculateLinkPath(ret)
    /\ pc' = "returned"
    /\ UNCHANGED appVars

NextRoute ==
    \/ CallCalculateLinkCoords
    \/ CallCalculateLinkPath

SpecRoute == InitRoute /\ [][NextRoute]_vars

---------------------------------------------------------------------------
(* Properties of the schema parser, checked on every base the host edits   *)
(* reach (Spec).                                                           *)

Links(schema) == {schema.linksById[k] : k \in DOMAIN schema.linksById}

(* the table (index in b) that holds field id f                            *)
TableOfField(b, f) ==
    CHOOSE t \in TableIndexes(b) : \E i \in 1..Len(b[t].fields) : b[t].fields[i].id = f

IsValidLinkedRecord(f) == f.type = MULTIPLE_RECORD_LINKS /\ f.options.isValid

(* pairs of live, valid linked-record fields that name each other as       *)
(* their mirror                                                            *)
MirrorPairs(b) ==
    {<<f, g>> \in FieldsOf(b) \X FieldsOf(b) :
        /\ IsValidLinkedRecord(f)
        /\ IsValidLinkedRecord(g)
        /\ f.options.inverseLinkFieldId = g.id
        /\ g.options.inverseLinkFieldId = f.id}

LinksBetween(schema, a, c) ==
    {l \in Links(schema) : {l.sourceId, l.targetId} = {a, c}}

(* C1: no two links of the final link set have the same id, and every      *)
(* pair of valid linked-record fields that are each other's mirror has     *)
(* exactly one link between them (A_B or B_A, never both), which both      *)
(* fields hold in their reverse-index entries: the field parsed second     *)
(* reuses the link of the first.                                           *)
C1_OneLinkPerMirrorPair ==
    LET schema == parseSchema(base)
    IN  /\ \A k \in DOMAIN schema.linksById : schema.linksById[k].id = k
        /\ \A l1, l2 \in Links(schema) : l1.id = l2.id => l1 = l2
        /\ \A p \in MirrorPairs(base) :
               /\ Cardinality(LinksBetween(schema, p[1].id, p[2].id)) = 1
               /\ Cardinality({createLinkId(p[1].id, p[2].id),
                               createLinkId(p[2].id, p[1].id)}
                              \cap DOMAIN schema.linksById) = 1
               /\ \A l \in LinksBetween(schema, p[1].id, p[2].id) :
                      /\ p[1].id \in DOMAIN schema.dependentLinksByNodeId
                      /\ p[2].id \in DOMAIN schema.dependentLinksByNodeId
                      /\ l \in SeqRange(schema.dependentLinksByNodeId[p[1].id])
                      /\ l \in SeqRange(schema.dependentLinksByNodeId[p[2].id])

(* a base with a mirror pair in two tables whose single link the second    *)
(* field has reused                                                        *)
C1_Witness ==
    \E p \in MirrorPairs(base) :
        /\ p[1].id # p[2].id
        /\ TableOfField(base, p[1].id) < TableOfField(base, p[2].id)
        /\ createLinkId(p[1].id, p[2].id) \in DOMAIN parseSchema(base).linksById
        /\ p[2].id \in DOMAIN parseSchema(base).dependentLinksByNodeId
        /\ parseSchema(base).linksById[createLinkId(p[1].id, p[2].id)]
               \in SeqRange(parseSchema(base).dependentLinksByNodeId[p[2].id])

(* C2: every link of the final link set has its targetTableId and its      *)
(* targetId among the ids of the nodes of the same parse; the links the    *)
(* first pass built whose target table or target node is absent are not    *)
(* in it, and all the others are.                                          *)
C2_LinkTargetsAreNodes ==
    LET schema == parseSchema(base)
        built == FirstPass(base).linksById
    IN  /\ \A l \in Links(schema) :
               /\ l.targetTableId \in DOMAIN schema.nodesById
               /\ l.targetId \in DOMAIN schema.nodesById
        /\ DOMAIN schema.linksById \subseteq DOMAIN built
        /\ \A k \in DOMAIN built :
               k \in DOMAIN schema.linksById
                   <=> /\ built[k].targetTableId \in DOMAIN schema.nodesById
                       /\ built[k].targetId \in DOMAIN schema.nodesById
        /\ \A k \in DOMAIN schema.linksById : schema.linksById[k] = built[k]

(* a parse that drops a link (its target field is gone, the target table   *)
(* is not) and keeps another                                               *)
C2_Witness ==
    /\ \E k \in DOMAIN FirstPass(base).linksById :
           /\ k \notin DOMAIN parseSchema(base).linksById
           /\ FirstPass(base).linksById[k].targetTableId \in LiveTableIds(base)
    /\ parseSchema(base).linksById # EmptyMap

(* the ids of the fields of the table with id tableId in b                 *)
FieldIdsOfTable(b, tableId) ==
    UNION {{b[t].fields[i].id : i \in 1..Len(b[t].fields)} :
              t \in {u \in TableIndexes(b) : b[u].id = tableId}}

WithoutKey(f, key) == [k \in DOMAIN f \ {key} |-> f[k]]

(* C3: when a table T is deleted from the base, the parse of the new base  *)
(* has no node for T or for a field of T and no link whose sourceTableId   *)
(* or targetTableId is T, and getUpdatedTableCoords on its table configs   *)
(* creates no coordinate entry for T: it leaves an entry T has untouched   *)
(* and gives none to T when T has none.                                    *)
C3_DeletedTableIsGone ==
    [][\A T \in LiveTableIds(base) \ LiveTableIds(base') :
           LET schema == parseSchema(base')
               configs == schema.tableConfigsByTableId
               updated == getUpdatedTableCoords(configs, tableCoordsByTableId)
           IN  /\ T \notin DOMAIN schema.nodesById
               /\ FieldIdsOfTable(base, T) \cap DOMAIN schema.nodesById = {}
               /\ \A l \in Links(schema) : l.sourceTableId # T /\ l.targetTableId # T
               /\ T \notin SeqRange(TableIdsOf(configs))
               /\ T \in DOMAIN updated => /\ T \in DOMAIN tableCoordsByTableId
                                          /\ updated[T] = tableCoordsByTableId[T]
               /\ T \notin DOMAIN getUpdatedTableCoords(configs,
                                      WithoutKey(tableCoordsByTableId, T))
      ]_vars

(* a table is gone that a field of a remaining table still links to and    *)
(* that still has its coordinate; the schema in use has no trace of it     *)
C3_Witness ==
    \E T \in DOMAIN tableCoordsByTableId \ LiveTableIds(base) :
        /\ \E f \in FieldsOf(base) : f.options.linkedTableId = T
        /\ T \notin DOMAIN baseSchema.nodesById
        /\ \A l \in Links(baseSchema) : l.targetTableId # T

(* C4: a valid linked-record field with no mirror field that links to its  *)
(* own table is the source of exactly one link, whose targetId and         *)
(* targetTableId are both the id of the field's table.                     *)
C4_SelfLinkTargetsOwnTable ==
    LET schema == parseSchema(base)
    IN  \A t \in TableIndexes(base) :
        \A i \in 1..Len(base[t].fields) :
            LET f == base[t].fields[i]
                from == {l \in Links(schema) : l.sourceId = f.id}
            IN  (/\ IsValidLinkedRecord(f)
                 /\ f.options.inverseLinkFieldId = NoId
                 /\ f.options.linkedTableId = base[t].id)
                => /\ Cardinality(from) = 1
                   /\ \A l \in from : /\ l.targetId = base[t].id
                                      /\ l.targetTableId = base[t].id
                                      /\ l.sourceTableId = base[t].id

(* a self-linking field in a base of two tables, with its link             *)
C4_Witness ==
    /\ Len(base) = 2
    /\ \E t \in TableIndexes(base) :
       \E i \in 1..Len(base[t].fields) :
           /\ IsValidLinkedRecord(base[t].fields[i])
           /\ base[t].fields[i].options.inverseLinkFieldId = NoId
           /\ base[t].fields[i].options.linkedTableId = base[t].id
           /\ createLinkId(base[t].fields[i].id, base[t].id)
                  \in DOMAIN parseSchema(base).linksById

---------------------------------------------------------------------------
(* Properties of the layout engine (SpecLayout).                           *)

Returned(f) == pc = "returned" /\ fn = f

(* C6: getUpdatedTableCoords returns the coordinates it was given whenever *)
(* every table id of the configs has an entry in them, whatever other      *)
(* entries they hold.                                                      *)
C6_NoNewTableReturnsCoords ==
    (/\ Returned("getUpdatedTableCoords")
     /\ SeqRange(TableIdsOf(args.newTableConfigs)) \subseteq DOMAIN args.oldTableCoords)
    => ret = args.oldTableCoords

(* two tables that both have coordinates, beside the entry of a table      *)
(* that is not in the configs                                              *)
C6_Witness ==
    /\ Returned("getUpdatedTableCoords")
    /\ Len(args.newTableConfigs) = 2
    /\ DOMAIN args.oldTableCoords =
           SeqRange(TableIdsOf(args.newTableConfigs)) \cup {StaleTableId}
    /\ ret = args.oldTableCoords

(* C7: every table id with an entry in the coordinates given to            *)
(* getUpdatedTableCoords has an entry with the same x and y in the result, *)
(* and the result's other entries are exactly the table ids of the configs *)
(* that had none.                                                          *)
C7_ExistingCoordsKept ==
    Returned("getUpdatedTableCoords")
    => /\ \A id \in DOMAIN args.oldTableCoords :
              /\ id \in DOMAIN ret
              /\ ret[id].x = args.oldTableCoords[id].x
              /\ ret[id].y = args.oldTableCoords[id].y
       /\ DOMAIN ret \ DOMAIN args.oldTableCoords =
              SeqRange(TableIdsOf(args.newTableConfigs)) \ DOMAIN args.oldTableCoords

(* a table with coordinates, a stale entry and two new tables              *)
C7_Witness ==
    /\ Returned("getUpdatedTableCoords")
    /\ Len(args.newTableConfigs) = 3
    /\ DOMAIN args.oldTableCoords = {TableIdAt(2), StaleTableId}
    /\ DOMAIN ret = {TableIdAt(1), TableIdAt(2), TableIdAt(3), StaleTableId}
    /\ ret[TableIdAt(2)] = args.oldTableCoords[TableIdAt(2)]

(* the x values getInitialTableCoords gave out                             *)
ColumnsUsed == {ret[id].x : id \in DOMAIN ret}

(* C8: getInitialTableCoords places N >= 1 tables in exactly ceil(sqrt(N)) *)
(* columns, the least k with k * k >= N: the x values used are             *)
(* 0, 230, ..., (k - 1) * 230, each by at least one table; N = 1, 2, 3, 4, *)
(* 5, 9, 10 give 1, 2, 2, 2, 3, 3, 4 columns.                              *)
C8_CeilSqrtColumns ==
    (Returned("getInitialTableCoords") /\ Len(args.tableConfigsByTableId) >= 1)
    => LET N == Len(args.tableConfigsByTableId)
           k == Cardinality(ColumnsUsed)
       IN  /\ k * k >= N
           /\ (k - 1) * (k - 1) < N
           /\ ColumnsUsed = {c * 230 : c \in 0..(k - 1)}
           /\ DOMAIN ret = SeqRange(TableIdsOf(args.tableConfigsByTableId))
           /\ N = 1 => k = 1
           /\ N \in {2, 3, 4} => k = 2
           /\ N \in {5, 9} => k = 3
           /\ N = 10 => k = 4

(* ten tables in four columns                                              *)
C8_Witness ==
    /\ Returned("getInitialTableCoords")
    /\ Len(args.tableConfigsByTableId) = 10
    /\ ColumnsUsed = {0, 230, 460, 690}

---------------------------------------------------------------------------
(* Properties of the path router (SpecRoute).                              *)

(* the left edge of a row of the table with id tableId, and its right edge *)
RowLeftEdge(tableId) == args.tableCoordsByTableId[tableId].x + TABLE_BORDER_WIDTH

RowRightEdge(tableId) == RowLeftEdge(tableId) + ROW_WIDTH

(* C9: calculateLinkCoords puts every link it routes in exactly one of     *)
(* three cases by the x of the source row and of the target row: source    *)
(* more than ROW_WIDTH right of the target, direct path from the source's  *)
(* left edge to the target's right edge; target more than ROW_WIDTH right  *)
(* of the source, direct path from the source's right edge to the target's *)
(* left edge; otherwise, |dx| = ROW_WIDTH included, no direct path and     *)
(* both right edges.                                                       *)
C9_ThreeWayClassification ==
    (Returned("calculateLinkCoords") /\ ~ret.threw)
    => LET s == args.link.sourceTableId
           t == args.link.targetTableId
           dx == RowLeftEdge(s) - RowLeftEdge(t)
       IN  /\ dx > ROW_WIDTH =>
                  /\ ret.useDirectPath
                  /\ ret.sourceCoords.x = RowLeftEdge(s)
                  /\ ret.targetCoords.x = RowRightEdge(t)
           /\ 0 - dx > ROW_WIDTH =>
                  /\ ret.useDirectPath
                  /\ ret.sourceCoords.x = RowRightEdge(s)
                  /\ ret.targetCoords.x = RowLeftEdge(t)
           /\ Abs(dx) <= ROW_WIDTH =>
                  /\ ~ret.useDirectPath
                  /\ ret.sourceCoords.x = RowRightEdge(s)
                  /\ ret.targetCoords.x = RowRightEdge(t)

(* rows exactly ROW_WIDTH apart: no direct path                            *)
C9_Witness ==
    /\ Returned("calculateLinkCoords")
    /\ ~ret.threw
    /\ RowLeftEdge(args.link.sourceTableId) - RowLeftEdge(args.link.targetTableId)
           = ROW_WIDTH
    /\ ~ret.useDirectPath
    /\ ret.targetCoords.x = RowRightEdge(args.link.targetTableId)

Between(v, a, b) == (a <= v /\ v <= b) \/ (b <= v /\ v <= a)

FlatInput ==
    [threw |-> FALSE, sourceCoords |-> Point(0, 0), targetCoords |-> Point(300, 0),
     useDirectPath |-> TRUE]

(* C10: for a direct path, calculateLinkPath's curve starts at the source  *)
(* endpoint and ends at the target endpoint, its first control point has   *)
(* the source's y and its second the target's y, and the x of both control *)
(* points lies between the x of the endpoints; source (0, 0) and target    *)
(* (300, 0) give M 0 0, control points at y = 0, and an end at 300 0.      *)
C10_DirectPathShape ==
    (Returned("calculateLinkPath") /\ args.useDirectPath)
    => LET sx == PathUnit * args.sourceCoords.x
           sy == PathUnit * args.sourceCoords.y
           tx == PathUnit * args.targetCoords.x
           ty == PathUnit * args.targetCoords.y
       IN  /\ ret.M = Point(sx, sy)
           /\ Len(ret.C) = 3
           /\ ret.C[3] = Point(tx, ty)
           /\ ret.C[1].y = sy
           /\ ret.C[2].y = ty
           /\ Between(ret.C[1].x, sx, tx)
           /\ Between(ret.C[2].x, sx, tx)
           /\ args = FlatInput =>
                  /\ ret.M = Point(0, 0)
                  /\ ret.C[3] = Point(PathUnit * 300, 0)
                  /\ ret.C[1].y = 0
                  /\ ret.C[2].y = 0

(* the flat curve from (0, 0) to (300, 0)                                  *)
C10_Witness ==
    /\ Returned("calculateLinkPath")
    /\ args = FlatInput
    /\ ret.C[1] = Point(PathUnit * 150, 0)

---------------------------------------------------------------------------
(* The layout functions step by step (SpecLayout).                         *)

(* the number of fields of the table with id tableId                       *)
FieldCount(tableConfigs, tableId) ==
    Len(tableConfigs[ConfigIndex(tableConfigs, tableId)].fieldNodes)

(* the accumulated height of column c once the first n tables are placed   *)
RECURSIVE HeightBefore(_, _, _, _)
HeightBefore(tableConfigs, coords, c, n) ==
    IF n = 0
    THEN 0
    ELSE HeightBefore(tableConfigs, coords, c, n - 1)
         + (IF coords[tableConfigs[n].tableId].x = c * 230
            THEN (Len(tableConfigs[n].fieldNodes) + 1) * 32 + 50
            ELSE 0)

(* C19: getInitialTableCoords places the tables in iteration order, each   *)
(* in the first column of accumulated height 0 if there is one and         *)
(* otherwise in the column of smallest accumulated height, the lowest      *)
(* index on ties, at x = columnIndex * (ROW_WIDTH + TABLE_GUTTER_SIZE) and *)
(* y = the column's height before the table; the column then grows by      *)
(* (fieldCount + 1) * ROW_HEIGHT + TABLE_GUTTER_SIZE.  The result has      *)
(* exactly one entry per table.                                            *)
C19_ShortestColumnPlacement ==
    Returned("getInitialTableCoords")
    => LET tableConfigs == args.tableConfigsByTableId
           N == Len(tableConfigs)
           columns == {k \in 0..N : k * k >= N /\ \A j \in 0..(k - 1) : j * j < N}
           k == CHOOSE c \in columns : TRUE
           H(c, n) == HeightBefore(tableConfigs, ret, c, n)
       IN  /\ DOMAIN ret = {tableConfigs[i].tableId : i \in 1..N}
           /\ ROW_WIDTH + TABLE_GUTTER_SIZE = 230
           /\ ROW_HEIGHT = 32 /\ TABLE_GUTTER_SIZE = 50
           /\ \A i \in 1..N :
                 LET at == ret[tableConfigs[i].tableId]
                     empty == {c \in 0..(k - 1) : H(c, i - 1) = 0}
                     lowest == {c \in 0..(k - 1) :
                                   \A d \in 0..(k - 1) : H(c, i - 1) <= H(d, i - 1)}
                     chosen == IF empty # {}
                               THEN CHOOSE c \in empty : \A d \in empty : c <= d
                               ELSE CHOOSE c \in lowest : \A d \in lowest : c <= d
                 IN  /\ at.x = chosen * 230
                     /\ at.y = H(chosen, i - 1)

(* seven tables: the last ones are packed into columns that are no longer  *)
(* empty, and the heights of the columns differ                            *)
C19_Witness ==
    /\ Returned("getInitialTableCoords")
    /\ Len(args.tableConfigsByTableId) = 7
    /\ \E i, j \in 1..7 :
          /\ Len(args.tableConfigsByTableId[i].fieldNodes)
                 # Len(args.tableConfigsByTableId[j].fieldNodes)
    /\ \E id \in DOMAIN ret : ret[id].y > 0 /\ ret[id].x > 0
    /\ \E a, b \in DOMAIN ret : ret[a].y > 0 /\ ret[b].y > 0 /\ ret[a].y # ret[b].y

(* C20: when the existing coordinates are not empty and some table of the  *)
(* configs has no entry in them, getUpdatedTableCoords gives every such    *)
(* table x = (maximum existing x) + ROW_WIDTH + TABLE_GUTTER_SIZE, the     *)
(* first of them y = the minimum existing y, and each following one the y  *)
(* of the one before plus that table's (fieldCount + 1) * ROW_HEIGHT +     *)
(* TABLE_GUTTER_SIZE.                                                      *)
C20_NewColumnRightOfExisting ==
    (/\ Returned("getUpdatedTableCoords")
     /\ args.oldTableCoords # EmptyMap)
    => LET old == args.oldTableCoords
           new == SelectSeq(TableIdsOf(args.newTableConfigs),
                            LAMBDA id : id \notin DOMAIN old)
           maxX == CHOOSE x \in {old[id].x : id \in DOMAIN old} :
                       \A id \in DOMAIN old : old[id].x <= x
           minY == CHOOSE y \in {old[id].y : id \in DOMAIN old} :
                       \A id \in DOMAIN old : y <= old[id].y
       IN  \A i \in 1..Len(new) :
              /\ ret[new[i]].x = maxX + 180 + 50
              /\ i = 1 => ret[new[i]].y = minY
              /\ i > 1 => ret[new[i]].y =
                     ret[new[i - 1]].y
                     + (FieldCount(args.newTableConfigs, new[i - 1]) + 1) * 32 + 50

(* two new tables beside a table whose entry is neither the rightmost nor  *)
(* the topmost one                                                         *)
C20_Witness ==
    /\ Returned("getUpdatedTableCoords")
    /\ DOMAIN args.oldTableCoords = {TableIdAt(2), StaleTableId}
    /\ args.oldTableCoords[TableIdAt(2)] = [x |-> 0, y |-> 114]
    /\ args.oldTableCoords[StaleTableId] = [x |-> 230, y |-> 0]
    /\ Len(args.newTableConfigs) = 3
    /\ ret[TableIdAt(1)].x = 460
    /\ ret[TableIdAt(1)].y = 0
    /\ ret[TableIdAt(3)].y > 0

---------------------------------------------------------------------------
(* Properties of the hover handlers (SpecHover) and of the drag handlers    *)
(* (SpecInteraction).                                                      *)

(* the links of the reverse-index entry of a node, none without an entry   *)
DependentLinksOf(schema, nodeId) ==
    IF nodeId \in DOMAIN schema.dependentLinksByNodeId
    THEN {schema.dependentLinksByNodeId[nodeId][i] :
             i \in 1..Len(schema.dependentLinksByNodeId[nodeId])}
    ELSE {}

HandledMouseOver == event.type = "mouseover" /\ event.handled

(* C11: the ids to emphasize for a hovered node are the link id, source id *)
(* and target id of every link of the node's reverse-index entry; for a    *)
(* hovered link they are its id, its source id and its target id; a node   *)
(* without a reverse-index entry gives no id at all.                       *)
C11_HoverEmphasis ==
    HandledMouseOver
    => LET emphasized == {idsToHighlight[i] : i \in 1..Len(idsToHighlight)}
           hovered == hoveredNodeOrLinkRef
       IN  /\ hovered \in DOMAIN baseSchema.nodesById =>
                  /\ emphasized =
                         UNION {{link.id, link.sourceId, link.targetId} :
                                   link \in DependentLinksOf(baseSchema, hovered)}
                  /\ hovered \notin DOMAIN baseSchema.dependentLinksByNodeId =>
                         idsToHighlight = <<>>
           /\ hovered \notin DOMAIN baseSchema.nodesById =>
                  /\ hovered \in DOMAIN baseSchema.linksById
                  /\ emphasized = {hovered, baseSchema.linksById[hovered].sourceId,
                                   baseSchema.linksById[hovered].targetId}

(* a linked-record field is hovered: its link and both ends                *)
C11_Witness ==
    /\ HandledMouseOver
    /\ hoveredNodeOrLinkRef \in DOMAIN baseSchema.nodesById
    /\ hoveredNodeOrLinkRef \notin RenderedTableIds(baseSchema)
    /\ Len(idsToHighlight) = 3
    /\ hoveredNodeOrLinkRef \in {idsToHighlight[i] : i \in 1..3}
    /\ \E linkId \in DOMAIN baseSchema.linksById : linkId \in highlighted

(* C12: a press on a table header without permission to set globalConfig   *)
(* changes nothing: no handler is registered, pan stays as it was (enabled *)
(* when nothing is dragged), no table element, link path or saved          *)
(* coordinate changes and nothing is written.                              *)
C12_UnauthorizedPressIgnored ==
    [][(event'.type = "mousedown" /\ ~event'.hasPermissionToSet)
       => /\ UNCHANGED <<windowListeners, panEnabled, tableElements, linkElements,
                         linkPathsByLinkId, tableCoordsByTableId, baseSchema>>
          /\ written' = <<>>
          /\ windowListeners = <<>> => (windowListeners' = <<>> /\ panEnabled')]_vars

(* the press of a user without permission, nothing being dragged           *)
C12_Witness ==
    /\ event.type = "mousedown"
    /\ ~event.hasPermissionToSet
    /\ windowListeners = <<>>
    /\ panEnabled
    /\ written = <<>>

(* the tables whose mousemove/mouseup handlers are registered              *)
DraggedTableIds == {windowListeners[i].tableId : i \in 1..Len(windowListeners)}

(* C13: whatever presses, pointer moves and releases were handled, at most *)
(* one table has registered mousemove/mouseup handlers.                    *)
C13_AtMostOneTableDragged == Cardinality(DraggedTableIds) <= 1

(* C18: once the component is unmounted no handler registered by a press   *)
(* is left on window.                                                      *)
C18_NoListenerAfterUnmount == ~mounted => windowListeners = <<>>

(* C14: the release of the drag of one table removes the handlers,          *)
(* re-enables pan and writes the coordinate map of the store with the      *)
(* entry of the dragged table, and no other, replaced by the position its  *)
(* element has at the release.                                             *)
C14_ReleaseCommitsDraggedTable ==
    [][(event'.type = "mouseup" /\ Len(windowListeners) = 1)
       => LET tableId == windowListeners[1].tableId
          IN  /\ windowListeners' = <<>>
              /\ panEnabled'
              /\ written' # <<>>
              /\ written'[1] = WithTableAt(tableCoordsByTableId, tableId,
                                           tableElements[tableId])]_vars

C17_LinkPathsChangeOnlyOnSchemaChange ==
    [][/\ linkPathsByLinkId' # linkPathsByLinkId => event'.type = "schema"
       /\ event'.type \in {"mousemove", "mouseup"}
              => linkPathsByLinkId' = linkPathsByLinkId]_vars

(* a link of a dragged table is drawn on a path linkPathsByLinkId does not *)
(* have, and the release saved coordinates                                 *)
C17_Witness ==
    /\ event.type = "mouseup"
    /\ written # <<>>
    /\ \E linkId \in DOMAIN linkPathsByLinkId :
           linkElements[linkId] # linkPathsByLinkId[linkId]

(* the pointer move of the drag of one table                               *)
MoveOfDraggedTable == event'.type = "mousemove" /\ Len(windowListeners) = 1

(* the path of a link with one table at a live position and the other      *)
(* tables at their saved coordinates                                       *)
LivePath(link, tableId, position) ==
    calculateLinkPath(
        calculateLinkCoords(link, (tableId :> position) @@ tableCoordsByTableId,
                            baseSchema.tableConfigsByTableId))

(* C21: a pointer move of the drag of table T redraws the links of T's     *)
(* reverse-index entry from the position T's element now has and the saved *)
(* coordinates of the other tables; every other drawn path and every       *)
(* other table's position stays, and nothing is written to the store.      *)
C21_MoveRedrawsOnlyDependentLinks ==
    [][MoveOfDraggedTable
       => LET tableId == windowListeners[1].tableId
              dependent == DependentLinksOf(baseSchema, tableId)
              pressed == DependentLinksOf(
                             [dependentLinksByNodeId |->
                                  windowListeners[1].dependentLinksByNodeId], tableId)
          IN  /\ DOMAIN linkElements' = DOMAIN linkElements
              /\ \A linkId \in DOMAIN linkElements :
                     linkElements'[linkId] # linkElements[linkId]
                         => \E link \in dependent : link.id = linkId
              /\ \A link \in pressed :
                     link.id \in DOMAIN linkElements
                         => linkElements'[link.id]
                                = LivePath(link, tableId, tableElements'[tableId])
              /\ DOMAIN tableElements' = DOMAIN tableElements
              /\ \A other \in DOMAIN tableElements \ {tableId} :
                     tableElements'[other] = tableElements[other]
              /\ tableElements'[tableId] # tableElements[tableId]
              /\ tableCoordsByTableId' = tableCoordsByTableId
              /\ written' = <<>>]_vars

(* a move redrew a link of the dragged table away from its saved position  *)
(* and left the link of another table as it was drawn                      *)
C21_Witness ==
    /\ event.type = "mousemove"
    /\ Len(windowListeners) = 1
    /\ LET tableId == windowListeners[1].tableId
       IN  /\ tableElements[tableId] # tableCoordsByTableId[tableId]
           /\ \E linkId \in DOMAIN linkElements :
                  /\ linkElements[linkId] # linkPathsByLinkId[linkId]
                  /\ linkElements[linkId]
                         = LivePath(baseSchema.linksById[linkId], tableId,
                                    tableElements[tableId])
           /\ \E linkId \in DOMAIN linkElements :
                  /\ \A link \in DependentLinksOf(baseSchema, tableId) : link.id # linkId
                  /\ linkElements[linkId] = linkPathsByLinkId[linkId]

---------------------------------------------------------------------------
(* Properties of the router's error handling (SpecRoute).                  *)

(* the ids of the field nodes of a table of the call's tableConfigs        *)
FieldNodeIdsOf(tableId) ==
    LET config == args.tableConfigsByTableId[
                      ConfigIndex(args.tableConfigsByTableId, tableId)]
    IN  {config.fieldNodes[i].id : i \in 1..Len(config.fieldNodes)}

SourceFieldMissing == args.link.sourceId \notin FieldNodeIdsOf(args.link.sourceTableId)

TargetFieldMissing ==
    /\ args.link.targetId # args.link.targetTableId
    /\ args.link.targetId \notin FieldNodeIdsOf(args.link.targetTableId)

(* C22: calculateLinkCoords throws, and returns no coordinates, exactly    *)
(* when the source id is not a field node of the source table or the       *)
(* target id is neither the target table's id nor a field node of it; a    *)
(* target id equal to the target table's id is the header row, the table's *)
(* y plus the border and half a row, and is no error.                      *)
C22_MissingFieldIsFatal ==
    Returned("calculateLinkCoords")
    => /\ ret.threw <=> (SourceFieldMissing \/ TargetFieldMissing)
       /\ ret.threw => ret = [threw |-> TRUE]
       /\ (~ret.threw /\ args.link.targetId = args.link.targetTableId)
              => ret.targetCoords.y =
                     args.tableCoordsByTableId[args.link.targetTableId].y
                         + TABLE_BORDER_WIDTH + ROW_HEIGHT \div 2

(* the source is a field of its table, the target is the id of the other   *)
(* table and not of its declared table: an error                           *)
C22_Witness ==
    /\ Returned("calculateLinkCoords")
    /\ ~SourceFieldMissing
    /\ args.link.targetId = TableIdAt(1)
    /\ args.link.targetTableId = TableIdAt(2)
    /\ ret.threw

---------------------------------------------------------------------------
(* Properties of the schema parser on every snapshot (SpecParse).          *)

(* every link object held in some entry of the reverse index               *)
IndexLinks(schema) ==
    UNION {DependentLinksOf(schema, nodeId) : nodeId \in DOMAIN schema.dependentLinksByNodeId}

(* C23: a field flagged isValid = false, of whatever type, has its field   *)
(* node in nodesById and at its place in the fieldNodes of its table, is   *)
(* the source of no link of linksById or of the reverse index, and         *)
(* registers nothing: each link under its id is one another field, a       *)
(* formula, count, lookup or rollup, made with it as target.               *)
C23_InvalidFieldMakesNoLink ==
    Returned("parseSchema")
    => \A t \in TableIndexes(args.base) :
       \A i \in 1..Len(args.base[t].fields) :
           LET field == args.base[t].fields[i]
               config == ret.tableConfigsByTableId[
                             ConfigIndex(ret.tableConfigsByTableId, args.base[t].id)]
           IN  ~field.options.isValid
               => /\ field.id \in DOMAIN ret.nodesById
                  /\ ret.nodesById[field.id].type = "field"
                  /\ ret.nodesById[field.id].tableId = args.base[t].id
                  /\ Len(config.fieldNodes) = Len(args.base[t].fields)
                  /\ config.fieldNodes[i].id = field.id
                  /\ \A link \in Links(ret) \cup IndexLinks(ret) :
                         link.sourceId # field.id
                  /\ \A link \in DependentLinksOf(ret, field.id) :
                         /\ link.targetId = field.id
                         /\ link.type # MULTIPLE_RECORD_LINKS

(* an invalid linked-record field that a valid linked-record field of the  *)
(* other table names as its mirror: a node, the target of that link, the   *)
(* source of none                                                          *)
C23_Witness ==
    /\ Returned("parseSchema")
    /\ \E i \in 1..2 :
           LET field == args.base[1].fields[i]
           IN  /\ ~field.options.isValid
               /\ field.type = MULTIPLE_RECORD_LINKS
               /\ field.options.inverseLinkFieldId = FieldIdAt(3)
               /\ field.id \in DOMAIN ret.nodesById
               /\ \E link \in Links(ret) :
                      /\ link.sourceId = FieldIdAt(3)
                      /\ link.targetId = field.id

---------------------------------------------------------------------------
(* Properties of getUpdatedTableCoords on every input (SpecLayout).        *)

(* the existing coordinates without the entry of the table that is gone    *)
WithoutStaleEntry(oldTableCoords) ==
    [tableId \in DOMAIN oldTableCoords \ {StaleTableId} |-> oldTableCoords[tableId]]

(* the table ids of the call's configs that the existing coordinates lack  *)
NewlyDiscovered ==
    {args.newTableConfigs[i].tableId : i \in 1..Len(args.newTableConfigs)}
        \ DOMAIN args.oldTableCoords

(* C24: with existing coordinates that hold an entry for a table absent    *)
(* from the configs, next to the entry of a table that is there, every     *)
(* newly discovered table gets the coordinates it gets without that entry. *)
C24_StaleEntryIsInert ==
    (/\ Returned("getUpdatedTableCoords")
     /\ StaleTableId \in DOMAIN args.oldTableCoords
     /\ DOMAIN args.oldTableCoords # {StaleTableId})
    => \A tableId \in NewlyDiscovered :
           ret[tableId] =
               getUpdatedTableCoords(args.newTableConfigs,
                   WithoutStaleEntry(args.oldTableCoords))[tableId]

(* C30: every table of the configs has a coordinate in the result of       *)
(* getUpdatedTableCoords, with a number for x and a number for y, whatever *)
(* the existing coordinates, the empty map included.                       *)
C30_CoordinatesAreNumbers ==
    Returned("getUpdatedTableCoords")
    => \A i \in 1..Len(args.newTableConfigs) :
           LET tableId == args.newTableConfigs[i].tableId
           IN  /\ tableId \in DOMAIN ret
               /\ IsNumber(ret[tableId].x)
               /\ IsNumber(ret[tableId].y)

---------------------------------------------------------------------------
(* Properties of the reverse index and of the link set.                    *)

(* C25: every link object held in an entry of dependentLinksByNodeId, of a *)
(* field or of a table, is a link of linksById.                            *)
C25_IndexLinksAreInLinkSet == IndexLinks(baseSchema) \subseteq Links(baseSchema)

(* C26: every link of linksById is in the reverse-index entry of its       *)
(* source field and in the entry of its target, a field or, for a          *)
(* self-link, the table; this on every snapshot, a target field flagged    *)
(* invalid or a mirror field that does not point back included.            *)
C26_LinksAreIndexedAtBothEnds ==
    Returned("parseSchema")
    => \A link \in Links(ret) :
           /\ link \in DependentLinksOf(ret, link.sourceId)
           /\ link \in DependentLinksOf(ret, link.targetId)

(* the ids of the field nodes of a table of the parsed schema               *)
ParsedFieldNodeIds(schema, tableId) ==
    LET index == ConfigIndex(schema.tableConfigsByTableId, tableId)
    IN  IF index = 0
        THEN {}
        ELSE {schema.tableConfigsByTableId[index].fieldNodes[i].id :
                 i \in 1..Len(schema.tableConfigsByTableId[index].fieldNodes)}

(* C27: on every snapshot, every link of linksById has its source among    *)
(* the field nodes of its source table and its target either the target    *)
(* table itself or among the field nodes of the target table, so that      *)
(* calculateLinkCoords does not throw once every table has coordinates.    *)
C27_EveryLinkIsRoutable ==
    Returned("parseSchema")
    => \A link \in Links(ret) :
           /\ link.sourceId \in ParsedFieldNodeIds(ret, link.sourceTableId)
           /\ \/ link.targetId = link.targetTableId
              \/ link.targetId \in ParsedFieldNodeIds(ret, link.targetTableId)
           /\ ~calculateLinkCoords(link,
                   getInitialTableCoords(ret.tableConfigsByTableId),
                   ret.tableConfigsByTableId).threw

---------------------------------------------------------------------------
(* Properties of the drag commit under schema changes (SpecInteraction).   *)

(* C28: a release leaves the saved coordinate of every table that is not   *)
(* being dragged as it was: each value written to the store holds it       *)
(* unchanged, and so does the store after the release, whatever schema     *)
(* changes were handled between the press and the release.                 *)
C28_CommitKeepsOtherTables ==
    [][event'.type = "mouseup"
       => \A other \in DOMAIN tableCoordsByTableId \ DraggedTableIds :
              /\ \A k \in 1..Len(written') :
                     /\ other \in DOMAIN written'[k]
                     /\ written'[k][other] = tableCoordsByTableId[other]
              /\ other \in DOMAIN tableCoordsByTableId'
              /\ tableCoordsByTableId'[other] = tableCoordsByTableId[other]]_vars

---------------------------------------------------------------------------
(* Properties of the placed rectangles (SpecLayout).                       *)

(* SvgTable: the svg element of a table is ROW_WIDTH + 2 *                 *)
(* TABLE_BORDER_WIDTH wide and ROW_HEIGHT * (fieldNodes.length + 1) + 2 *  *)
(* TABLE_BORDER_WIDTH high, at x, y of its coordinates.                    *)
SvgTableWidth == ROW_WIDTH + 2 * TABLE_BORDER_WIDTH

SvgTableHeight(tableConfig) ==
    ROW_HEIGHT * (Len(tableConfig.fieldNodes) + 1) + 2 * TABLE_BORDER_WIDTH

(* the rectangles of two tables, both at numeric coordinates, have a point *)
(* in common                                                               *)
RectanglesIntersect(coordsA, configA, coordsB, configB) ==
    /\ IsNumber(coordsA.x) /\ IsNumber(coordsA.y)
    /\ IsNumber(coordsB.x) /\ IsNumber(coordsB.y)
    /\ coordsA.x < coordsB.x + SvgTableWidth
    /\ coordsB.x < coordsA.x + SvgTableWidth
    /\ coordsA.y < coordsB.y + SvgTableHeight(configB)
    /\ coordsB.y < coordsA.y + SvgTableHeight(configA)

(* tables i and j of the configs intersect at the coordinates coords       *)
TablesIntersect(tableConfigs, coords, i, j) ==
    RectanglesIntersect(coords[tableConfigs[i].tableId], tableConfigs[i],
                        coords[tableConfigs[j].tableId], tableConfigs[j])

(* C29: no two tables intersect at the coordinates getInitialTableCoords   *)
(* returns, and a table that getUpdatedTableCoords places intersects no    *)
(* other table of the configs at the coordinates it returns, newly placed  *)
(* or at an existing coordinate.                                           *)
C29_PlacedTablesDoNotOverlap ==
    /\ Returned("getInitialTableCoords")
       => \A i, j \in 1..Len(args.tableConfigsByTableId) :
              i # j => ~TablesIntersect(args.tableConfigsByTableId, ret, i, j)
    /\ Returned("getUpdatedTableCoords")
       => \A i, j \in 1..Len(args.newTableConfigs) :
              (/\ i # j
               /\ args.newTableConfigs[i].tableId \notin DOMAIN args.oldTableCoords)
              => ~TablesIntersect(args.newTableConfigs, ret, i, j)

(* two tables placed one under the other in the new column, beside a table *)
(* that stays at the right-most existing coordinate, on the same y as the  *)
(* first of them                                                           *)
C29_Witness ==
    /\ Returned("getUpdatedTableCoords")
    /\ Len(args.newTableConfigs) = 3
    /\ DOMAIN args.oldTableCoords = {TableIdAt(1)}
    /\ ret[TableIdAt(2)].x = ret[TableIdAt(1)].x + ROW_WIDTH + TABLE_GUTTER_SIZE
    /\ ret[TableIdAt(2)].y = ret[TableIdAt(1)].y
    /\ ret[TableIdAt(3)].x = ret[TableIdAt(2)].x
    /\ ret[TableIdAt(3)].y > ret[TableIdAt(2)].y

====
